---- MODULE Spec2Model ----
(***************************************************************************)
(* Chat orchestration engine of chatbot-weather: the router, the agent     *)
(* loop, the fallback coordinator and the streaming event pipeline, in the *)
(* two orchestrators of the repository:                                    *)
(*   impl = "service" : OrchestratorService   (orchestrator.service)       *)
(*   impl = "graph"   : LangGraphOrchestrator (langgraph nodes and state)   *)
(* One behaviour of Spec is one request, from the controller's call to the *)
(* reply.  Text is a sequence of atoms: a word or the blank " ".           *)
(***************************************************************************)
EXTENDS Integers, Sequences, FiniteSets, TLC

\* ---------------------------------------------------------------- bounds
MaxIter == 2        \* largest maxIterations a request asks for
MaxCalls == 2       \* most tool calls in one model response
MaxHistory == 1     \* stored turns (user + assistant) before the request
MaxAppends == 2     \* appendMessages calls on the session repository
MaxNow == 1         \* milliseconds that pass on the client's clock
MaxSends == 2       \* sendMessage calls of the client
ClientBudget == 1   \* iterations the backend runs for a request of the client

\* ------------------------------------------------------------ fixed text
ApologyText ==
  <<"Sorry,", " ", "I", " ", "encountered", " ", "an", " ", "error", " ",
    "processing", " ", "your", " ", "request.">>
MaxIterText == <<"Max", " ", "iterations", " ", "reached">>
NoResponseText == <<"No", " ", "response", " ", "generated">>
NoFallbackText ==
  <<"Error:", " ", "Primary", " ", "model", " ", "failed", " ", "and", " ",
    "no", " ", "fallback", " ", "available">>

\* answers a model backend can give (<<>> is the empty or null content)
Contents == { <<>>, <<"a", " ", "b">> }

Providers == {"openai", "deepseek"}

\* --------------------------------------------------------------- helpers
\* JavaScript's  x || y  on text: the empty string and null are falsy
OrElse(x, y) == IF x = <<>> THEN y ELSE x

RECURSIVE Concat(_)
Concat(ss) == IF ss = <<>> THEN <<>> ELSE Head(ss) \o Concat(Tail(ss))

\* String.prototype.split(' '): the words between blanks, in order
RECURSIVE SplitBlank(_, _)
SplitBlank(s, cur) ==
  IF s = <<>> THEN <<cur>>
  ELSE IF Head(s) = " " THEN <<cur>> \o SplitBlank(Tail(s), <<>>)
  ELSE SplitBlank(Tail(s), Append(cur, Head(s)))

\* the payloads of the content events of the word-by-word emission
RECURSIVE WordChunks(_, _, _)
WordChunks(words, i, acc) ==
  IF i > Len(words) THEN <<>>
  ELSE LET accumulatedContent == acc \o (IF i > 1 THEN <<" ">> ELSE <<>>) \o words[i]
       IN  <<accumulatedContent>> \o WordChunks(words, i + 1, accumulatedContent)

\* ------------------------------------------------------------- messages
Msg(role, content, calls, callId) ==
  [role |-> role, content |-> content, toolCalls |-> calls, toolCallId |-> callId]
UserMsg == Msg("user", <<"q">>, <<>>, 0)
AssistantFinal(text) == Msg("assistant", text, <<>>, 0)
AssistantCalls(calls) == Msg("assistant", <<>>, calls, 0)
ToolMsg(call, res) == Msg("tool", <<res>>, <<>>, call.id)

\* the entry of toolCallsMade for a call (stamp stands for its timestamp)
MadeEntry(call) == [name |-> call.name, arguments |-> call.arguments, stamp |-> call.id]

\* ---------------------------------------------------------------- events
Event(type, model, flag, text, tools) ==
  [type |-> type, model |-> model, flag |-> flag, text |-> text, tools |-> tools]
RoutingEvent(model, fb) == Event("routing", model, fb, <<>>, <<>>)
ContentEvent(text) == Event("content", "", FALSE, text, <<>>)
ToolEvent(entry) == Event("tool", "", FALSE, <<>>, <<entry>>)
ProgressEvent(stage) == Event("progress", "", FALSE, <<stage>>, <<>>)
DoneEvent(text, tools, model, fb) == Event("done", model, fb, text, tools)
ErrorEvent == Event("error", "", FALSE, <<"error">>, <<>>)

\* ---------------------------------------------------------------- router
AuxOutputs ==
  [kind : {"raise", "unparseable"}, model : {"missing"},
   confidence : {"missing"}, reasoning : {"missing"}]
  \cup
  [kind : {"json"}, model : {"openai", "deepseek", "missing", "other"},
   confidence : {"missing", "c"}, reasoning : {"missing", "r"}]

getFallbackModel(primaryModel) ==
  IF primaryModel = "openai" THEN "deepseek"
  ELSE IF primaryModel = "deepseek" THEN "openai"
  ELSE "openai"

\* JavaScript's falsy values of a JSON field: absent, "" and 0
Falsy(v) == v \in {"missing", "", "0"}

routeRequest(aux) ==
  IF aux.kind = "json"
  THEN [model |-> IF Falsy(aux.model) THEN "openai" ELSE aux.model,
        confidence |-> IF Falsy(aux.confidence) THEN "0.5" ELSE aux.confidence,
        reasoning |-> IF Falsy(aux.reasoning) THEN "Default routing" ELSE aux.reasoning,
        fallbackModel |-> getFallbackModel(aux.model)]
  ELSE [model |-> "openai", confidence |-> "0.5",
        reasoning |-> "Routing failed, using default model",
        fallbackModel |-> "deepseek"]

\* LLMFactory.create: TRUE when a service exists for the provider
FactoryCreates(provider) == provider \in Providers

\* ------------------------------------------------------- model responses
Call(id, arguments) == [id |-> id, name |-> "get_current_weather", arguments |-> arguments]

\* the tool-call lists a response can carry, ids fresh from first
CallLists(first) ==
  UNION { { [j \in 1..k |-> Call(first + j - 1, a[j])] : a \in [1..k -> {"obj", "null"}] }
          : k \in 1..MaxCalls }

\* executeTool: the payloads it can return (weather data or an error
\* payload, one opaque value here); none when it raises
ToolResults(call) == IF call.arguments = "null" THEN {} ELSE {"payload"}

VARIABLES
  impl,               \* "service" | "graph"
  mode,               \* "chat" (processChat) | "stream" (processChatStream)
  streamMode,         \* "none" | "native" | "values" | "updates" | "invoke"
  maxIterations,
  pc,
  store,              \* the session's stored messages
  analytics,          \* number of chat-history records written
  decision,           \* the routing decision: model and fallbackModel
  messages,           \* service: history + user message; graph: state.messages
  conv,               \* service: conversationMessages of the attempt
  toolCallsMade,
  pending,            \* service: tool calls of the batch not yet executed
  iter,               \* service: i; graph: state.iterationCount
  selectedModel,      \* service: model of the attempt; graph: state.selectedModel
  attempt,            \* "primary" | "fallback"
  fallbackUsed,       \* graph: state.fallbackUsed
  finalResponse,      \* model answer (<<>> is null)
  error,              \* graph: state.error is set
  events,             \* stream events written to the client, in order
  result,             \* the reply of the non-streaming endpoint
  routingEmitted, previousToolCount, lastEmittedContent, lastState,
  nextId,             \* next fresh tool-call id
  modelCalls,         \* backend calls made, per attempt
  firstMsgs,          \* message list of the first backend call, per attempt
  lastCall,           \* message list of the latest backend call
  raised,             \* a backend call of the attempt raised
  loopEnd,            \* how the latest agent loop ended
  fallbackFirstId,    \* first tool-call id not issued to the primary attempt
  order,              \* tool calls decided, announced and executed, in order
  connected,          \* the consumer of the stream is still reading
  atDisconnect,       \* backend and tool calls made when the consumer left
  twin,               \* stream: what processChat returns for the same run
  auxOutput,          \* router: the output of the auxiliary routing call
  routerDecision,    \* router: the RoutingDecision routeRequest returned
  modIn,              \* the arguments of a getModerationResponse call
  moderationResponse, \* the canned response it returned, <<>> for null
  req,                \* the request as the moderation middleware sees it
  moderationContext,  \* what the middleware attached to the request
  nextCalled,         \* the middleware handed the request on with next()
  toolIn,             \* the arguments of an executeTool call
  toolOutput,         \* what executeTool returned
  sessionDocs,        \* repository: the messages of each stored session
  expected,           \* repository: per session, stored then appended messages
  loaded,             \* repository: what the latest getSessionHistory returned
  appends,            \* repository: appendMessages calls made
  writers,            \* repository: the appendMessage calls that run concurrently
  callIn,             \* the arguments of a call of a pure function
  callOut,            \* what that call returned
  chat,               \* frontend: the chat store (messages, isLoading, error, sessionId)
  reply,              \* frontend: the locals of the sendMessage call in flight
  fpc,                \* frontend: "off" | "idle" | "streaming" | "returned"
  clock               \* frontend: Date.now() and the ids generateId has issued

cfg == <<impl, mode, streamMode, maxIterations>>
db == <<store, analytics>>
emitter == <<routingEmitted, previousToolCount, lastEmittedContent, lastState>>
ghost == <<nextId, modelCalls, firstMsgs, lastCall, raised, loopEnd>>
pure == <<auxOutput, routerDecision, modIn, moderationResponse, req, moderationContext,
          nextCalled, toolIn, toolOutput, sessionDocs, expected, loaded, appends,
          writers, callIn, callOut, chat, reply, fpc, clock>>
session == <<sessionDocs, expected, loaded, appends, writers>>
pureCall == <<callIn, callOut>>
front == <<chat, reply, fpc, clock>>
side == <<connected, atDisconnect, pure>>

vars == <<impl, mode, streamMode, maxIterations, pc, store, analytics, decision,
          messages, conv, toolCallsMade, pending, iter,
          selectedModel, attempt, fallbackUsed, finalResponse, error,
          events, result,
          routingEmitted, previousToolCount, lastEmittedContent, lastState,
          nextId, modelCalls, firstMsgs, lastCall, raised, loopEnd,
          fallbackFirstId, order, connected, atDisconnect, twin,
          auxOutput, routerDecision, modIn, moderationResponse, req, moderationContext,
          nextCalled, toolIn, toolOutput, sessionDocs, expected, loaded, appends,
          callIn, callOut, chat, reply, fpc, clock, writers>>

RECURSIVE History(_)
History(n) ==
  IF n = 0 THEN <<>> ELSE History(n - 1) \o <<UserMsg, AssistantFinal(<<"a">>)>>

NoResult == [kind |-> "none", response |-> <<>>, toolCallsMade |-> <<>>,
             modelUsed |-> "", fallbackUsed |-> FALSE]
Http500 == [kind |-> "http500", response |-> <<>>, toolCallsMade |-> <<>>,
            modelUsed |-> "", fallbackUsed |-> FALSE]
Json(text, tools, model, fb) ==
  [kind |-> "json", response |-> text, toolCallsMade |-> tools,
   modelUsed |-> model, fallbackUsed |-> fb]

\* numbers of backend calls and of tool executions
NoCalls == [model |-> 0, tool |-> 0]

\* entries of order: the call id was decided by a model response, announced
\* by a tool event, or its execution completed
Op(op, id) == [op |-> op, id |-> id]
DecidedOps(calls) == [j \in 1..Len(calls) |-> Op("decided", calls[j].id)]
\* the tool events among the events written after the first n
RECURSIVE AnnouncedOps(_, _)
AnnouncedOps(evs, n) ==
  IF Len(evs) <= n THEN <<>>
  ELSE AnnouncedOps(SubSeq(evs, 1, Len(evs) - 1), n)
       \o (IF evs[Len(evs)].type = "tool"
             THEN <<Op("event", evs[Len(evs)].tools[1].stamp)>> ELSE <<>>)
\* the executions of a batch that complete: all of them, or those up to the
\* first one that raises
RECURSIVE ExecutedOps(_)
ExecutedOps(calls) ==
  IF calls = <<>> THEN <<>>
  ELSE <<Op("executed", Head(calls).id)>>
       \o (IF ToolResults(Head(calls)) = {} THEN <<>> ELSE ExecutedOps(Tail(calls)))

InitialLastState ==
  [selectedModel |-> "none", fallbackUsed |-> FALSE,
   toolCallsMade |-> <<>>, finalResponse |-> <<>>]

\* values of the variables of a part of the program that is not running
None == [none |-> TRUE]
RouterIdle == auxOutput = None /\ routerDecision = None
ModerationIdle == modIn = None /\ moderationResponse = None
GateIdle == req = None /\ moderationContext = None /\ nextCalled = FALSE
ToolIdle == toolIn = None /\ toolOutput = None
SessionIdle ==
  /\ sessionDocs = None /\ expected = None /\ loaded = None /\ appends = 0
  /\ writers = None
CallIdle == callIn = None /\ callOut = None
FrontIdle == chat = None /\ reply = None /\ fpc = "off" /\ clock = None

\* a request as it arrives at the server
Arriving ==
  /\ impl \in {"service", "graph"}
  /\ mode \in {"chat", "stream"}
  /\ streamMode \in {"none", "native", "values", "updates", "invoke"}
  /\ streamMode \in (IF mode = "chat" THEN {"none"}
                     ELSE IF impl = "service" THEN {"native"}
                     ELSE {"values", "updates", "invoke"})
  /\ maxIterations \in 0..MaxIter
  /\ store \in { History(n) : n \in 0..MaxHistory }
  /\ analytics = 0
  /\ decision = [model |-> "none", fallbackModel |-> "none"]
  /\ messages = <<>>
  /\ conv = <<>>
  /\ toolCallsMade = <<>>
  /\ pending = <<>>
  /\ iter = 0
  /\ selectedModel = "none"
  /\ attempt = "primary"
  /\ fallbackUsed = FALSE
  /\ finalResponse = <<>>
  /\ error = FALSE
  /\ events = <<>>
  /\ result = NoResult
  /\ routingEmitted = FALSE
  /\ previousToolCount = 0
  /\ lastEmittedContent = <<>>
  /\ lastState = InitialLastState
  /\ nextId = 1
  /\ modelCalls = [a \in {"primary", "fallback"} |-> 0]
  /\ firstMsgs = [a \in {"primary", "fallback"} |-> <<>>]
  /\ lastCall = <<>>
  /\ raised = [a \in {"primary", "fallback"} |-> FALSE]
  /\ loopEnd = "none"
  /\ fallbackFirstId = 0
  /\ order = <<>>
  /\ connected = TRUE
  /\ atDisconnect = NoCalls
  /\ twin = NoResult

\* a request as it enters the orchestrator
Request == Arriving /\ pc = "load"

Init == Request /\ RouterIdle /\ ModerationIdle /\ GateIdle /\ ToolIdle /\ SessionIdle /\ CallIdle /\ FrontIdle

\* streamMode 'invoke': processChatStream runs processChat and then yields
\* its result as a routing, a content and a done event
InvokeEvents(res) ==
  <<RoutingEvent(res.modelUsed, FALSE), ContentEvent(res.response),
    DoneEvent(res.response, res.toolCallsMade, res.modelUsed, res.fallbackUsed)>>

\* variant of Throw: the catch blocks reply nothing on the stream
Throw_Silent(evs) ==
  /\ pc' = "done"
  /\ events' = evs
  /\ result' = IF mode = "chat"
               THEN (IF impl = "service" THEN Http500
                     ELSE Json(ApologyText, <<>>, "openai", FALSE))
               ELSE result
  /\ twin' = IF mode = "chat" THEN twin
             ELSE IF impl = "service" THEN Http500
             ELSE Json(ApologyText, <<>>, "openai", FALSE)

\* an exception that leaves the orchestrator (service) or the graph run
\* (graph), after the events evs were written
Throw(evs) ==
  /\ pc' = "done"
  /\ IF mode = "chat"
     THEN /\ events' = evs
          /\ result' = IF impl = "service" THEN Http500
                       ELSE Json(ApologyText, <<>>, "openai", FALSE)
     ELSE /\ result' = result
          /\ events' = IF impl = "service" THEN Append(evs, ErrorEvent)
                       ELSE IF streamMode = "invoke"
                       THEN evs \o InvokeEvents(Json(ApologyText, <<>>, "openai", FALSE))
                       ELSE Append(evs, DoneEvent(ApologyText, <<>>, "openai", FALSE))
  /\ twin' = IF mode = "chat" THEN twin
             ELSE IF impl = "service" THEN Http500
             ELSE Json(ApologyText, <<>>, "openai", FALSE)

\* variant of appendAssistant: the messages of the agent loop (assistant
\* tool-call turns and tool results) are stored with the answer
appendAssistant_Conversation(st, text) ==
  LET work == IF impl = "service" THEN conv ELSE messages
      loop == IF Len(work) > Len(st) THEN SubSeq(work, Len(st) + 1, Len(work))
              ELSE <<>>
  IN  Append(st \o loop, AssistantFinal(text))

\* sessionRepository.appendMessage(sessionId, assistantMessage): the final
\* answer is stored as an assistant message without tool calls
appendAssistant(st, text) == Append(st, AssistantFinal(text))

\* ghost bookkeeping of one backend call made with the message list msgs
NoteCall(msgs) ==
  /\ modelCalls' = [modelCalls EXCEPT ![attempt] = @ + 1]
  /\ firstMsgs' = IF modelCalls[attempt] = 0
                  THEN [firstMsgs EXCEPT ![attempt] = msgs] ELSE firstMsgs
  /\ lastCall' = msgs

\* the chunks a streaming backend yields for the content c, atom by atom
Chunks(c) == [j \in 1..Len(c) |-> ContentEvent(<<c[j]>>)]

\* ============================================================= service
\* OrchestratorService.processChat / processChatStream: load the history
S_Load ==
  /\ UNCHANGED side
  /\ UNCHANGED order
  /\ UNCHANGED fallbackFirstId
  /\ impl = "service" /\ pc = "load"
  /\ \/ /\ messages' = store
        /\ pc' = "saveUser"
        /\ UNCHANGED <<events, result, twin>>
     \/ /\ Throw(events)
        /\ UNCHANGED messages
  /\ UNCHANGED <<cfg, db, decision, conv, toolCallsMade, pending, iter, selectedModel,
                 attempt, fallbackUsed, finalResponse, error, emitter, ghost>>

\* append the user message to the session, messages = [...history, new]
S_SaveUser ==
  /\ UNCHANGED side
  /\ UNCHANGED order
  /\ UNCHANGED fallbackFirstId
  /\ impl = "service" /\ pc = "saveUser"
  /\ \/ /\ store' = Append(store, UserMsg)
        /\ messages' = Append(messages, UserMsg)
        /\ pc' = "route"
        /\ UNCHANGED <<events, result, twin>>
     \/ /\ Throw(events)
        /\ UNCHANGED <<store, messages>>
  /\ UNCHANGED <<cfg, analytics, decision, conv, toolCallsMade, pending, iter,
                 selectedModel, attempt, fallbackUsed, finalResponse, error,
                 emitter, ghost>>

\* route the request; the stream emits the routing event
S_Route ==
  /\ UNCHANGED side
  /\ UNCHANGED order
  /\ UNCHANGED fallbackFirstId
  /\ impl = "service" /\ pc = "route"
  /\ \E aux \in AuxOutputs :
       LET routingDecision == routeRequest(aux) IN
       /\ decision' = [model |-> routingDecision.model,
                       fallbackModel |-> routingDecision.fallbackModel]
       /\ events' = IF mode = "stream"
                    THEN Append(events, RoutingEvent(routingDecision.model, FALSE))
                    ELSE events
  /\ pc' = "attempt"
  /\ UNCHANGED <<cfg, db, messages, conv, toolCallsMade, pending, iter, selectedModel,
                 attempt, fallbackUsed, finalResponse, error, result, emitter, ghost,
                 twin>>

\* variant of AttemptFails: a failed fallback attempt hands the request back
\* to the primary model
AttemptFails_Alternate(evs) ==
  /\ decision.fallbackModel # "none"
  /\ attempt' = IF attempt = "primary" THEN "fallback" ELSE "primary"
  /\ pc' = "attempt"
  /\ result' = result
  /\ twin' = twin
  /\ events' = evs

\* the attempt ended by an exception, after the events evs were written:
\* executeWithModel returns success = false, streamWithModel throws
AttemptFails(evs) ==
  IF attempt = "primary" /\ decision.fallbackModel # "none"
  THEN /\ attempt' = "fallback"
       /\ pc' = "attempt"
       /\ result' = result
       /\ twin' = twin
       /\ events' = IF mode = "stream"
                    THEN Append(evs, RoutingEvent(decision.fallbackModel, TRUE))
                    ELSE evs
  ELSE LET apology == Json(ApologyText, <<>>,
                           IF attempt = "fallback" THEN decision.fallbackModel
                           ELSE decision.model,
                           attempt = "fallback")
       IN
       /\ attempt' = attempt
       /\ pc' = "done"
       /\ IF mode = "chat"
          THEN /\ events' = evs
               /\ result' = apology
               /\ twin' = twin
          ELSE /\ events' = IF attempt = "fallback" THEN Append(evs, ErrorEvent)
                            ELSE evs
               /\ result' = result
               /\ twin' = apology

\* the attempt ended with the answer text
AttemptSucceeds(text, tools) ==
  /\ pc' = "done"
  /\ attempt' = attempt
  /\ IF mode = "chat"
     THEN /\ events' = events
          /\ result' = Json(OrElse(text, ApologyText), tools,
                            IF attempt = "fallback" THEN decision.fallbackModel
                            ELSE decision.model,
                            attempt = "fallback")
     ELSE /\ result' = result
          /\ events' = Append(events, DoneEvent(text, tools, selectedModel,
                                                attempt = "fallback"))
  /\ twin' = IF mode = "chat" THEN twin
             ELSE Json(OrElse(text, ApologyText), tools,
                       IF attempt = "fallback" THEN decision.fallbackModel
                       ELSE decision.model,
                       attempt = "fallback")

\* executeWithModel / streamWithModel: create the service, copy the messages
S_Start ==
  /\ UNCHANGED side
  /\ UNCHANGED order
  /\ fallbackFirstId' = IF attempt = "fallback" THEN nextId ELSE fallbackFirstId
  /\ impl = "service" /\ pc = "attempt"
  /\ LET model == IF attempt = "primary" THEN decision.model
                  ELSE decision.fallbackModel IN
     IF FactoryCreates(model)
     THEN /\ selectedModel' = model
          /\ conv' = messages
          /\ toolCallsMade' = <<>>
          /\ pending' = <<>>
          /\ iter' = 0
          /\ pc' = "loop"
          /\ UNCHANGED <<attempt, events, result, twin>>
     ELSE /\ AttemptFails(events)
          /\ UNCHANGED <<selectedModel, conv, toolCallsMade, pending, iter>>
  /\ loopEnd' = "none"
  /\ UNCHANGED <<cfg, db, decision, messages, fallbackUsed, finalResponse, error,
                 emitter, nextId, modelCalls, firstMsgs, lastCall, raised>>

\* one backend call of the agent loop (i < maxIterations)
S_CallModel ==
  /\ UNCHANGED side
  /\ UNCHANGED fallbackFirstId
  /\ impl = "service" /\ pc = "loop" /\ iter < maxIterations
  /\ NoteCall(conv)
  /\ \E c \in Contents :
       LET streamed == IF mode = "stream" THEN events \o Chunks(c) ELSE events IN
       \/ \* the call raises, in a stream after any prefix of the chunks
          /\ \E n \in 0..Len(c) :
               AttemptFails(IF mode = "stream"
                            THEN events \o SubSeq(Chunks(c), 1, n) ELSE events)
          /\ raised' = [raised EXCEPT ![attempt] = TRUE]
          /\ loopEnd' = "raised"
          /\ UNCHANGED <<conv, pending, finalResponse, nextId, order>>
       \/ \* a final answer
          /\ finalResponse' = c
          /\ pc' = "persist"
          /\ events' = streamed
          /\ loopEnd' = "final"
          /\ UNCHANGED <<conv, pending, nextId, attempt, result, raised, order, twin>>
       \/ \* tool invocations: one assistant message carrying all of them
          /\ \E calls \in CallLists(nextId) :
               /\ conv' = Append(conv, AssistantCalls(calls))
               /\ pending' = calls
               /\ nextId' = nextId + Len(calls)
               /\ order' = order \o DecidedOps(calls)
          /\ pc' = "tools"
          /\ events' = streamed
          /\ UNCHANGED <<finalResponse, attempt, result, raised, loopEnd, twin>>
  /\ UNCHANGED <<cfg, db, decision, messages, toolCallsMade, iter, selectedModel,
                 fallbackUsed, error, emitter>>

\* one tool call of the batch: log it, emit the tool event, execute it,
\* append its tool message
S_Tool ==
  /\ UNCHANGED side
  /\ UNCHANGED fallbackFirstId
  /\ impl = "service" /\ pc = "tools" /\ pending # <<>>
  /\ LET toolCall == Head(pending)
         evs == IF mode = "stream"
                THEN Append(events, ToolEvent(MadeEntry(toolCall))) ELSE events
     IN
     /\ toolCallsMade' = Append(toolCallsMade, MadeEntry(toolCall))
     /\ order' = order \o AnnouncedOps(evs, Len(events))
                        \o <<Op("executed", toolCall.id)>>
     /\ IF ToolResults(toolCall) = {}
        THEN /\ AttemptFails(evs)
             /\ loopEnd' = "toolRaised"
             /\ UNCHANGED <<conv, pending, iter>>
        ELSE /\ \E toolResult \in ToolResults(toolCall) :
                  conv' = Append(conv, ToolMsg(toolCall, toolResult))
             /\ pending' = Tail(pending)
             /\ iter' = IF Tail(pending) = <<>> THEN iter + 1 ELSE iter
             /\ pc' = IF Tail(pending) = <<>> THEN "loop" ELSE "tools"
             /\ events' = evs
             /\ UNCHANGED <<attempt, result, loopEnd, twin>>
  /\ UNCHANGED <<cfg, db, decision, messages, selectedModel, fallbackUsed,
                 finalResponse, error, emitter, nextId, modelCalls, firstMsgs,
                 lastCall, raised>>

\* final answer: write the analytics record
S_Persist ==
  /\ UNCHANGED side
  /\ UNCHANGED order
  /\ UNCHANGED fallbackFirstId
  /\ impl = "service" /\ pc = "persist"
  /\ \/ /\ analytics' = analytics + 1
        /\ pc' = "persistSession"
        /\ UNCHANGED <<attempt, events, result, loopEnd, twin>>
     \/ /\ AttemptFails(events)
        /\ loopEnd' = "persistRaised"
        /\ UNCHANGED analytics
  /\ UNCHANGED <<cfg, store, decision, messages, conv, toolCallsMade, pending, iter,
                 selectedModel, fallbackUsed, finalResponse, error, emitter,
                 nextId, modelCalls, firstMsgs, lastCall, raised>>

\* final answer: append the assistant message to the session and return
S_PersistSession ==
  /\ UNCHANGED side
  /\ UNCHANGED order
  /\ UNCHANGED fallbackFirstId
  /\ impl = "service" /\ pc = "persistSession"
  /\ LET text == OrElse(finalResponse, NoResponseText) IN
     \/ /\ store' = appendAssistant(store, text)
        /\ AttemptSucceeds(text, toolCallsMade)
        /\ UNCHANGED loopEnd
     \/ /\ AttemptFails(events)
        /\ loopEnd' = "persistRaised"
        /\ UNCHANGED store
  /\ UNCHANGED <<cfg, analytics, decision, messages, conv, toolCallsMade, pending,
                 iter, selectedModel, fallbackUsed, finalResponse, error,
                 emitter, nextId, modelCalls, firstMsgs, lastCall, raised>>

\* the loop ran maxIterations times: write the analytics record and return
\* the fixed answer
S_Exhausted ==
  /\ UNCHANGED side
  /\ UNCHANGED order
  /\ UNCHANGED fallbackFirstId
  /\ impl = "service" /\ pc = "loop" /\ ~(iter < maxIterations)
  /\ \/ /\ analytics' = analytics + 1
        /\ AttemptSucceeds(MaxIterText, toolCallsMade)
        /\ loopEnd' = "exhausted"
     \/ /\ AttemptFails(events)
        /\ loopEnd' = "exhaustedWriteRaised"
        /\ UNCHANGED analytics
  /\ UNCHANGED <<cfg, store, decision, messages, conv, toolCallsMade, pending, iter,
                 selectedModel, fallbackUsed, finalResponse, error, emitter,
                 nextId, modelCalls, firstMsgs, lastCall, raised>>

\* =============================================================== graph
Has(ch, key) == key \in DOMAIN ch
\* reducer (_, update) => update
Replaced(ch, key, old) == IF Has(ch, key) THEN ch[key] ELSE old
\* reducer (current, update) => [...current, ...update]
Appended(ch, key, old) == IF Has(ch, key) THEN old \o ch[key] ELSE old
NoChange == [none |-> TRUE]

NodeEvent(node) == Event("node", "", FALSE, <<node>>, <<>>)

ToolEvents(entries, withProgress) ==
  Concat([j \in 1..Len(entries) |->
            IF withProgress THEN <<ToolEvent(entries[j]), ProgressEvent("tool")>>
            ELSE <<ToolEvent(entries[j])>>])

ContentEvents(texts) == [j \in 1..Len(texts) |-> ContentEvent(texts[j])]

\* streamMode 'values': the events of one loop pass over the full state
ValuesRouting(sel) == ~routingEmitted /\ sel # "none"
ValuesTools(tools) == Len(tools) > previousToolCount
ValuesContent(final) == final # <<>> /\ final # lastEmittedContent
ValuesEvents(sel, tools, final) ==
  (IF ValuesRouting(sel)
     THEN <<RoutingEvent(sel, FALSE), ProgressEvent("executing")>> ELSE <<>>)
  \o (IF ValuesTools(tools)
        THEN ToolEvents(SubSeq(tools, previousToolCount + 1, Len(tools)), TRUE)
        ELSE <<>>)
  \o (IF ValuesContent(final)
        THEN ContentEvents(WordChunks(SplitBlank(final, <<>>), 1, <<>>)) ELSE <<>>)

\* streamMode 'updates': the events of one loop pass over a node's update
UpdatesRouting(ch) ==
  /\ ~routingEmitted
  /\ Has(ch, "selectedModel") /\ ch.selectedModel # "none"
  /\ Has(ch, "routingReasoning")
UpdatesTools(ch) == Has(ch, "toolCallsMade") /\ Len(ch.toolCallsMade) > 0
UpdatesContent(ch) == Has(ch, "finalResponse") /\ ch.finalResponse # <<>>
UpdatesEvents(ch, node) ==
  <<NodeEvent(node)>>
  \o (IF UpdatesRouting(ch) THEN <<RoutingEvent(ch.selectedModel, FALSE)>> ELSE <<>>)
  \o (IF UpdatesTools(ch)
        THEN ToolEvents(SubSeq(ch.toolCallsMade, previousToolCount + 1,
                               Len(ch.toolCallsMade)), FALSE)
        ELSE <<>>)
  \o (IF UpdatesContent(ch) THEN <<ContentEvent(ch.finalResponse)>> ELSE <<>>)

MergeLastState(ch) ==
  [k \in DOMAIN lastState |-> IF Has(ch, k) THEN ch[k] ELSE lastState[k]]

OrOpenai(sel) == IF sel = "none" THEN "openai" ELSE sel

\* conditional edge after execute_model
shouldContinueAfterModel(err, fb, fbUsed, final, msgs) ==
  IF err /\ fb # "none" /\ ~fbUsed THEN "fallback_model"
  ELSE IF final # <<>> THEN "save_response"
  ELSE IF msgs # <<>> /\ Len(msgs[Len(msgs)].toolCalls) > 0 THEN "execute_tools"
  ELSE "save_response"

\* conditional edge after execute_tools
shouldContinueAfterTools(iterationCount, maxIter) ==
  IF iterationCount >= maxIter THEN "save_response" ELSE "execute_model"

\* the node's update ch goes through the reducers, the stream loop emits
\* the events of the pass (pre: events written before the pass, by the
\* generator itself), and the graph moves to next; after the last node
\* processChat returns and processChatStream emits done
GraphStep(ch, node, next, pre) ==
  LET msgs == Appended(ch, "messages", messages)
      tools == Appended(ch, "toolCallsMade", toolCallsMade)
      sel == Replaced(ch, "selectedModel", selectedModel)
      final == Replaced(ch, "finalResponse", finalResponse)
      fbUsed == Replaced(ch, "fallbackUsed", fallbackUsed)
      err == Replaced(ch, "error", error)
      merged == MergeLastState(ch)
      last == (next = "END")
      passEvents == IF streamMode = "values" THEN ValuesEvents(sel, tools, final)
                    ELSE IF streamMode = "updates" THEN UpdatesEvents(ch, node)
                    ELSE <<>>
      doneEvent ==
        IF streamMode = "values"
        THEN DoneEvent(OrElse(final, NoResponseText), tools, OrOpenai(sel), fbUsed)
        ELSE DoneEvent(OrElse(merged.finalResponse, NoResponseText),
                       merged.toolCallsMade, OrOpenai(merged.selectedModel),
                       merged.fallbackUsed)
  IN
  /\ messages' = msgs
  /\ toolCallsMade' = tools
  /\ selectedModel' = sel
  /\ finalResponse' = final
  /\ fallbackUsed' = fbUsed
  /\ error' = err
  /\ iter' = Replaced(ch, "iterationCount", iter)
  /\ decision' = [decision EXCEPT !.fallbackModel = Replaced(ch, "fallbackModel", @),
                                  !.model = IF node = "route_request" THEN sel ELSE @]
  /\ IF streamMode = "values"
     THEN /\ routingEmitted' = (routingEmitted \/ ValuesRouting(sel))
          /\ previousToolCount' = IF ValuesTools(tools) THEN Len(tools)
                                  ELSE previousToolCount
          /\ lastEmittedContent' = IF ValuesContent(final) THEN final
                                   ELSE lastEmittedContent
          /\ lastState' = lastState
     ELSE IF streamMode = "updates"
     THEN /\ routingEmitted' = (routingEmitted \/ UpdatesRouting(ch))
          /\ previousToolCount' = IF UpdatesTools(ch) THEN Len(ch.toolCallsMade)
                                  ELSE previousToolCount
          /\ lastEmittedContent' = lastEmittedContent
          /\ lastState' = merged
     ELSE UNCHANGED emitter
  /\ pc' = IF last THEN "done" ELSE next
  /\ events' = IF mode = "chat" THEN events
               ELSE IF streamMode = "invoke"
               THEN pre \o (IF last
                            THEN InvokeEvents(Json(OrElse(final, ApologyText), tools,
                                                   OrOpenai(sel), fbUsed))
                            ELSE <<>>)
               ELSE pre \o passEvents \o (IF last THEN <<doneEvent>> ELSE <<>>)
  /\ result' = IF mode = "chat" /\ last
               THEN Json(OrElse(final, ApologyText), tools, OrOpenai(sel), fbUsed)
               ELSE result
  /\ twin' = IF mode = "stream" /\ last
             THEN Json(OrElse(final, ApologyText), tools, OrOpenai(sel), fbUsed)
             ELSE twin

\* a node threw: nothing of the node reaches the state
GraphThrow(pre) ==
  /\ Throw(pre)
  /\ UNCHANGED <<messages, toolCallsMade, selectedModel, finalResponse, fallbackUsed,
                 error, iter, decision, emitter>>

\* the generator's first events (values mode), then loadHistoryNode
G_Load ==
  /\ UNCHANGED side
  /\ UNCHANGED order
  /\ UNCHANGED fallbackFirstId
  /\ impl = "graph" /\ pc = "load"
  /\ LET pre == IF streamMode = "values"
                THEN events \o <<ProgressEvent("starting"), ProgressEvent("loading")>>
                ELSE events
     IN \/ GraphStep([messages |-> store], "load_history", "save_user_message", pre)
        \/ GraphThrow(pre)
  /\ UNCHANGED <<cfg, db, conv, pending, attempt, ghost>>

\* saveUserMessageNode
G_SaveUser ==
  /\ UNCHANGED side
  /\ UNCHANGED order
  /\ UNCHANGED fallbackFirstId
  /\ impl = "graph" /\ pc = "save_user_message"
  /\ \/ /\ store' = Append(store, UserMsg)
        /\ GraphStep([messages |-> <<UserMsg>>], "save_user_message",
                     "route_request", events)
     \/ /\ GraphThrow(events)
        /\ UNCHANGED store
  /\ UNCHANGED <<cfg, analytics, conv, pending, attempt, ghost>>

\* routeRequestNode
G_Route ==
  /\ UNCHANGED side
  /\ UNCHANGED order
  /\ UNCHANGED fallbackFirstId
  /\ impl = "graph" /\ pc = "route_request"
  /\ \E aux \in AuxOutputs :
       LET routingDecision == routeRequest(aux) IN
       GraphStep([selectedModel |-> routingDecision.model,
                  routingReasoning |-> routingDecision.reasoning,
                  routingConfidence |-> routingDecision.confidence,
                  fallbackModel |-> routingDecision.fallbackModel],
                 "route_request", "execute_model", events)
  /\ UNCHANGED <<cfg, db, conv, pending, attempt, ghost>>

\* executeModelNode, then the conditional edge
G_ExecuteModel ==
  /\ UNCHANGED side
  /\ UNCHANGED fallbackFirstId
  /\ impl = "graph" /\ pc = "execute_model"
  /\ IF ~FactoryCreates(selectedModel)
     THEN /\ GraphStep([error |-> TRUE], "execute_model",
                       shouldContinueAfterModel(TRUE, decision.fallbackModel,
                                                fallbackUsed, finalResponse, messages),
                       events)
          /\ UNCHANGED <<ghost, order>>
     ELSE /\ NoteCall(messages)
          /\ \/ \* the call raises
                /\ GraphStep([error |-> TRUE], "execute_model",
                             shouldContinueAfterModel(TRUE, decision.fallbackModel,
                                                      fallbackUsed, finalResponse,
                                                      messages),
                             events)
                /\ raised' = [raised EXCEPT ![attempt] = TRUE]
                /\ loopEnd' = "raised"
                /\ UNCHANGED <<nextId, order>>
             \/ \* tool invocations
                \E calls \in CallLists(nextId) :
                  /\ GraphStep([messages |-> <<AssistantCalls(calls)>>,
                                iterationCount |-> iter + 1], "execute_model",
                               shouldContinueAfterModel(
                                 error, decision.fallbackModel, fallbackUsed,
                                 finalResponse, Append(messages, AssistantCalls(calls))),
                               events)
                  /\ nextId' = nextId + Len(calls)
                  /\ order' = order \o DecidedOps(calls)
                  /\ UNCHANGED <<raised, loopEnd>>
             \/ \* a final answer
                \E c \in Contents :
                  /\ GraphStep([finalResponse |-> OrElse(c, NoResponseText)],
                               "execute_model",
                               shouldContinueAfterModel(
                                 error, decision.fallbackModel, fallbackUsed,
                                 OrElse(c, NoResponseText), messages),
                               events)
                  /\ loopEnd' = "final"
                  /\ UNCHANGED <<nextId, raised, order>>
  /\ UNCHANGED <<cfg, db, conv, pending, attempt>>

\* executeToolsNode, then the conditional edge
G_ExecuteTools ==
  /\ UNCHANGED side
  /\ UNCHANGED fallbackFirstId
  /\ impl = "graph" /\ pc = "execute_tools"
  /\ LET lastMessage == messages[Len(messages)]
         calls == lastMessage.toolCalls
     IN
     IF calls = <<>>
     THEN GraphStep(NoChange, "execute_tools",
                    shouldContinueAfterTools(iter, maxIterations), events)
     ELSE IF \E j \in 1..Len(calls) : ToolResults(calls[j]) = {}
     THEN GraphThrow(events)
     ELSE GraphStep(
            [messages |-> [j \in 1..Len(calls) |->
                             ToolMsg(calls[j], CHOOSE r \in ToolResults(calls[j]) : TRUE)],
             toolCallsMade |-> [j \in 1..Len(calls) |-> MadeEntry(calls[j])]],
            "execute_tools", shouldContinueAfterTools(iter, maxIterations), events)
  /\ order' = order \o ExecutedOps(messages[Len(messages)].toolCalls)
                     \o AnnouncedOps(events', Len(events))
  /\ loopEnd' = IF pc' = "save_response" THEN "exhausted"
                ELSE IF pc' = "done" THEN "toolRaised" ELSE loopEnd
  /\ UNCHANGED <<cfg, db, conv, pending, attempt, nextId, modelCalls, firstMsgs,
                 lastCall, raised>>

\* fallbackModelNode: one call of the fallback model on state.messages
\* the tool invocations a response of the fallback model carries: none, or
\* a list with fresh ids
FallbackCalls(first) == {<<>>} \cup CallLists(first)

G_Fallback ==
  /\ UNCHANGED side
  /\ fallbackFirstId' = nextId
  /\ impl = "graph" /\ pc = "fallback_model"
  /\ attempt' = "fallback"
  /\ IF decision.fallbackModel = "none"
     THEN /\ GraphStep([finalResponse |-> NoFallbackText], "fallback_model",
                       "save_response", events)
          /\ UNCHANGED <<ghost, order>>
     ELSE IF ~FactoryCreates(decision.fallbackModel)
     THEN /\ GraphStep([finalResponse |-> ApologyText, error |-> TRUE],
                       "fallback_model", "save_response", events)
          /\ UNCHANGED <<ghost, order>>
     ELSE /\ modelCalls' = [modelCalls EXCEPT !["fallback"] = @ + 1]
          /\ firstMsgs' = [firstMsgs EXCEPT !["fallback"] = messages]
          /\ lastCall' = messages
          /\ \/ \* a response: only its content is read, the tool invocations
                \* it carries are not looked at
                /\ \E c \in Contents, calls \in FallbackCalls(nextId) :
                     /\ GraphStep([selectedModel |-> decision.fallbackModel,
                                   fallbackUsed |-> TRUE,
                                   finalResponse |-> OrElse(c, NoResponseText),
                                   error |-> FALSE],
                                  "fallback_model", "save_response", events)
                     /\ nextId' = nextId + Len(calls)
                     /\ order' = order \o DecidedOps(calls)
                /\ loopEnd' = "final"
                /\ UNCHANGED raised
             \/ \* the call raises
                /\ GraphStep([finalResponse |-> ApologyText, error |-> TRUE],
                             "fallback_model", "save_response", events)
                /\ raised' = [raised EXCEPT !["fallback"] = TRUE]
                /\ loopEnd' = "raised"
                /\ UNCHANGED <<nextId, order>>
  /\ UNCHANGED <<cfg, db, conv, pending>>

\* saveFinalResponseNode, then END: processChat returns, the stream emits done
G_Save ==
  /\ UNCHANGED side
  /\ UNCHANGED order
  /\ UNCHANGED fallbackFirstId
  /\ impl = "graph" /\ pc = "save_response"
  /\ IF finalResponse = <<>> \/ selectedModel = "none"
     THEN /\ GraphStep(NoChange, "save_response", "END", events)
          /\ UNCHANGED <<db, loopEnd>>
     ELSE \/ /\ store' = appendAssistant(store, finalResponse)
             /\ analytics' = analytics + 1
             /\ GraphStep(NoChange, "save_response", "END", events)
             /\ UNCHANGED loopEnd
          \/ \* the session write fails
             /\ GraphThrow(events)
             /\ loopEnd' = "persistRaised"
             /\ UNCHANGED db
          \/ \* the analytics write fails
             /\ store' = appendAssistant(store, finalResponse)
             /\ GraphThrow(events)
             /\ loopEnd' = "persistRaised"
             /\ UNCHANGED analytics
  /\ UNCHANGED <<cfg, conv, pending, attempt, nextId, modelCalls, firstMsgs,
                 lastCall, raised>>

Next ==
  \/ S_Load \/ S_SaveUser \/ S_Route \/ S_Start \/ S_CallModel \/ S_Tool
  \/ S_Persist \/ S_PersistSession \/ S_Exhausted
  \/ G_Load \/ G_SaveUser \/ G_Route \/ G_ExecuteModel \/ G_ExecuteTools
  \/ G_Fallback \/ G_Save

Spec == Init /\ [][Next]_vars

\* ------------------------------------------------------------ router
\* the variables of the orchestrator
main == <<cfg, pc, db, decision, messages, conv, toolCallsMade, pending, iter,
          selectedModel, attempt, fallbackUsed, finalResponse, error, events, result,
          emitter, ghost, fallbackFirstId, order, twin, connected, atDisconnect>>

\* what the auxiliary model can answer: the call raises, the content is not
\* JSON, the content is the JSON null, or a JSON object whose fields are
\* present or not
RouterOutputs ==
  [kind : {"raise", "unparseable", "null"}, model : {"missing"},
   confidence : {"missing"}, reasoning : {"missing"}]
  \cup
  [kind : {"json"}, model : {"openai", "deepseek", "missing", "", "other"},
   confidence : {"missing", "0", "0.3", "0.9", "-1", "1.5", "high"},
   reasoning : {"missing", "", "r"}]

InitRouter ==
  /\ Request /\ ModerationIdle /\ GateIdle /\ ToolIdle /\ SessionIdle /\ CallIdle /\ FrontIdle
  /\ auxOutput \in RouterOutputs
  /\ routerDecision = None

\* RouterService.routeRequest on the output of the auxiliary call
RouteRequest ==
  /\ auxOutput # None /\ routerDecision = None
  /\ routerDecision' = routeRequest(auxOutput)
  /\ UNCHANGED <<main, front, auxOutput, modIn, moderationResponse, req, moderationContext,
                 nextCalled, toolIn, toolOutput, session, pureCall>>

NextRouter == RouteRequest

SpecRouter == InitRouter /\ [][NextRouter]_vars

\* -------------------------------------------------------- moderation
InappropriateText == <<"I'm sorry, but I can't respond to that type of content.">>
SuggestionText == <<"I specialize in weather information and can't help with that topic. However">>
ScopeDefaultText == <<"I specialize in weather information and can't help with that topic. Is">>

\* a value a function returned
Returned(v) == [value |-> v]

\* the texts getModerationResponse can be given as originalText: a message
\* with or without weather vocabulary, or no argument at all; the pattern
\* test of undefined is the test of the string "undefined"
Texts == {"weather", "plain", "undefined"}
hasWeatherContent(originalText) == originalText = "weather"

\* ModerationService.getModerationResponse, <<>> for null
getModerationResponse(moderationResult, scopeResult, emotionalTone, originalText) ==
  IF ~moderationResult.isAppropriate
  THEN (IF hasWeatherContent(originalText) THEN <<>> ELSE InappropriateText)
  ELSE IF ~scopeResult.isWithinScope
  THEN OrElse(scopeResult.suggestion, ScopeDefaultText)
  ELSE <<>>

Tones == {"angry", "distressed", "neutral", "positive"}

ModerationInputs ==
  [moderationResult : [isAppropriate : BOOLEAN],
   scopeResult : [isWithinScope : BOOLEAN, suggestion : {<<>>, SuggestionText}],
   emotionalTone : [tone : Tones],
   originalText : Texts]

InitModeration ==
  /\ Request /\ RouterIdle /\ GateIdle /\ ToolIdle /\ SessionIdle /\ CallIdle /\ FrontIdle
  /\ impl = "graph" /\ mode = "chat" /\ maxIterations = 0 /\ store = <<>>
  /\ modIn \in ModerationInputs
  /\ moderationResponse = None

\* one call of getModerationResponse
GetModerationResponse ==
  /\ modIn # None /\ moderationResponse = None
  /\ moderationResponse' =
       Returned(getModerationResponse(modIn.moderationResult, modIn.scopeResult,
                                      modIn.emotionalTone, modIn.originalText))
  /\ UNCHANGED <<main, front, auxOutput, routerDecision, modIn, req, moderationContext,
                 nextCalled, toolIn, toolOutput, session, pureCall>>

NextModeration == GetModerationResponse

SpecModeration == InitModeration /\ [][NextModeration]_vars

\* ------------------------------------------------------------ the gate
\* what the moderations endpoint answers for the message: nothing flagged,
\* flagged with every score at most 0.7, a score above 0.7, or the call fails
Classifier == {"clean", "mild", "serious", "fails"}
\* the tone markers of the message
Markers == {"anger", "distress", "none"}
\* the requests the middleware can see: no message in the body, a message
\* that is not a string, or a text with its features
Requests ==
  { r \in [body : {"missing", "nonText", "text"}, classifier : Classifier,
           scopePattern : BOOLEAN, markers : Markers, weatherWords : BOOLEAN] :
      r.body # "text" =>
        (r.classifier = "clean" /\ ~r.scopePattern /\ r.markers = "none"
         /\ ~r.weatherWords) }

\* scores are hundredths: 70 is the threshold 0.7
Threshold == 70
CategoryOrder == <<"harassment", "hate", "violence">>
Categories == {"harassment", "hate", "violence"}
ScoreValues == {0, 50, 70, 71, 100}

\* what moderations.create gives: it fails, it answers without a result, or
\* it answers the flagged bit and a score per category
ClassifierResponses ==
  [outcome : {"fails", "malformed"}, flagged : {FALSE},
   scores : {[c \in Categories |-> 0]}]
  \cup [outcome : {"ok"}, flagged : BOOLEAN, scores : [Categories -> ScoreValues]]

\* the answers behind the four kinds of message of the gate
ClassifierAnswer(classifier) ==
  [outcome |-> IF classifier = "fails" THEN "fails" ELSE "ok",
   flagged |-> classifier \in {"mild", "serious"},
   scores |-> [c \in Categories |->
                 IF c # "hate" THEN 0
                 ELSE IF classifier = "serious" THEN 100
                 ELSE IF classifier = "mild" THEN 50 ELSE 0]]

\* the category with the highest score, the first one among equals; none
\* when not flagged or when every score is 0
RECURSIVE Highest(_, _, _, _)
Highest(scores, i, best, bestScore) ==
  IF i > Len(CategoryOrder) THEN best
  ELSE IF scores[CategoryOrder[i]] > bestScore
  THEN Highest(scores, i + 1, CategoryOrder[i], scores[CategoryOrder[i]])
  ELSE Highest(scores, i + 1, best, bestScore)

\* variant of hasSeriousViolation: a score at the threshold counts as well
hasSeriousViolation_AtLeast(scores) ==
  \E c \in Categories : scores[c] >= Threshold

\* some category score is above the threshold
hasSeriousViolation(scores) ==
  \E c \in Categories : scores[c] > Threshold

\* variant of checkContent: a failed classifier call rejects the content
checkContent_FailClosed(response) ==
  IF response.outcome # "ok"
  THEN [isAppropriate |-> FALSE, flagged |-> TRUE, primaryViolation |-> "none",
        error |-> "message"]
  ELSE [isAppropriate |-> ~hasSeriousViolation(response.scores),
        flagged |-> response.flagged,
        primaryViolation |-> IF response.flagged
                             THEN Highest(response.scores, 1, "none", 0) ELSE "none",
        error |-> "none"]

\* ModerationService.checkContent: the threshold decides, the catch block
\* answers appropriate and records error.message
checkContent(response) ==
  IF response.outcome # "ok"
  THEN [isAppropriate |-> TRUE, flagged |-> FALSE, primaryViolation |-> "none",
        error |-> "message"]
  ELSE [isAppropriate |-> ~hasSeriousViolation(response.scores),
        flagged |-> response.flagged,
        primaryViolation |-> IF response.flagged
                             THEN Highest(response.scores, 1, "none", 0) ELSE "none",
        error |-> "none"]

\* ModerationService.isWithinScope
isWithinScope(scopePattern) ==
  IF scopePattern
  THEN [isWithinScope |-> FALSE, reason |-> "out_of_scope", suggestion |-> SuggestionText]
  ELSE [isWithinScope |-> TRUE, reason |-> "allowed", suggestion |-> <<>>]

\* detectEmotionalTone reports the exclamation indicator from this count on
ExclamationThreshold == 3

\* what detectEmotionalTone reads in a text: more than half of the
\* characters are capitals, the number of exclamation marks, an angry word,
\* blame language, a run of two or more of ! and ?, a distress word
TextFeatures ==
  [caps : BOOLEAN, exclamations : 0..ExclamationThreshold, angryWords : BOOLEAN,
   blameLanguage : BOOLEAN, multiplePunctuation : BOOLEAN, distressWords : BOOLEAN]

Fired(flags) == SelectSeq(flags, LAMBDA x : x # "null")

\* ModerationService.detectEmotionalTone
detectEmotionalTone(text) ==
  IF \/ text.caps \/ text.exclamations >= ExclamationThreshold \/ text.angryWords
     \/ text.multiplePunctuation \/ text.blameLanguage
  THEN [tone |-> "angry", confidence |-> "0.8",
        indicators |->
          Fired(<<IF text.caps THEN "caps" ELSE "null",
                  IF text.exclamations >= ExclamationThreshold
                  THEN "exclamation" ELSE "null",
                  IF text.angryWords THEN "angry_words" ELSE "null",
                  IF text.blameLanguage THEN "blame_language" ELSE "null">>)]
  ELSE IF text.distressWords
  THEN [tone |-> "distressed", confidence |-> "0.7",
        indicators |-> <<"urgent_language">>]
  ELSE [tone |-> "neutral", confidence |-> "0.7", indicators |-> <<>>]

\* a text with the tone markers of a request: an angry word, a distress
\* word, or none
MarkedText(markers) ==
  [caps |-> FALSE, exclamations |-> 0, angryWords |-> markers = "anger",
   blameLanguage |-> FALSE, multiplePunctuation |-> FALSE,
   distressWords |-> markers = "distress"]

\* the replies of the middleware
Http400 == [kind |-> "http400", error |-> "No message provided"]
ModeratedReason(moderationResult) ==
  IF ~moderationResult.isAppropriate THEN "inappropriate_content" ELSE "out_of_scope"
ModeratedJson(text, reason) ==
  [kind |-> "json", response |-> text, moderated |-> TRUE, reason |-> reason,
   modelUsed |-> "moderation", toolCallsMade |-> <<>>]
ModeratedDone(text, reason) ==
  [type |-> "done", model |-> "moderation", flag |-> FALSE, text |-> text,
   tools |-> <<>>, moderated |-> TRUE, reason |-> reason]
Sentinel == [type |-> "[DONE]"]

\* the handler behind the gate: the chat controller, which calls the
\* orchestrator
AfterGate == "load"

\* next(): with the moderation context attached, or from the catch block
Admit(context) ==
  /\ pc' = AfterGate
  /\ nextCalled' = TRUE
  /\ moderationContext' = context
  /\ UNCHANGED <<result, events>>

\* variant of Block: the reply is sent and the request is handed on as well
Block_FallsThrough(text, reason, context) ==
  /\ IF mode = "stream"
     THEN events' = <<ModeratedDone(text, reason), Sentinel>> /\ UNCHANGED result
     ELSE result' = ModeratedJson(text, reason) /\ UNCHANGED events
  /\ pc' = AfterGate
  /\ nextCalled' = TRUE
  /\ moderationContext' = context

\* the canned response is the reply: one done event and the sentinel on the
\* streaming path, a JSON body otherwise; next() is not called
Block(text, reason, context) ==
  /\ IF mode = "stream"
     THEN events' = <<ModeratedDone(text, reason), Sentinel>> /\ UNCHANGED result
     ELSE result' = ModeratedJson(text, reason) /\ UNCHANGED events
  /\ pc' = "done"
  /\ UNCHANGED <<nextCalled, moderationContext>>

\* moderationMiddleware
ModerationMiddleware ==
  /\ pc = "moderate"
  /\ UNCHANGED <<cfg, db, decision, messages, conv, toolCallsMade, pending, iter,
                 selectedModel, attempt, fallbackUsed, finalResponse, error,
                 emitter, ghost, fallbackFirstId, order, twin, connected,
                 atDisconnect, auxOutput, routerDecision, modIn,
                 moderationResponse, req, toolIn, toolOutput, session, pureCall,
                 front>>
  /\ IF req.body = "missing"
     THEN /\ result' = Http400
          /\ pc' = "done"
          /\ UNCHANGED <<events, nextCalled, moderationContext>>
     ELSE IF req.body = "nonText"
     THEN \* text.toLowerCase raises in isWithinScope; the catch block
          Admit(None)
     ELSE LET moderationResult == checkContent(ClassifierAnswer(req.classifier))
              scopeResult == isWithinScope(req.scopePattern)
              emotionalTone == detectEmotionalTone(MarkedText(req.markers))
              context == [emotionalTone |-> emotionalTone,
                          scopeResult |-> scopeResult,
                          moderationResult |-> moderationResult]
              \* called without originalText
              blocking == getModerationResponse(moderationResult, scopeResult,
                                                emotionalTone, "undefined")
          IN IF blocking # <<>>
             THEN Block(blocking, ModeratedReason(moderationResult), context)
             ELSE Admit(context)

InitGate ==
  /\ Arriving /\ RouterIdle /\ ModerationIdle /\ ToolIdle /\ SessionIdle /\ CallIdle /\ FrontIdle
  /\ pc = "moderate"
  \* behind the gate: a budget of one iteration, an empty session
  /\ maxIterations = 1 /\ store = <<>>
  /\ req \in Requests
  /\ moderationContext = None
  /\ nextCalled = FALSE

NextGate ==
  \/ ModerationMiddleware
  \/ S_Load \/ S_SaveUser \/ S_Route \/ S_Start \/ S_CallModel \/ S_Tool
  \/ S_Persist \/ S_PersistSession \/ S_Exhausted
  \/ G_Load \/ G_SaveUser \/ G_Route \/ G_ExecuteModel \/ G_ExecuteTools
  \/ G_Fallback \/ G_Save

SpecGate == InitGate /\ [][NextGate]_vars

\* ------------------------------------------------------------- tools
ToolNames == {"get_current_weather", "get_forecast", "unknown_tool"}
\* the argument mapping the model supplies, as JSON.parse of its text gives
\* it: an object with or without location and unit, null, or none at all
ToolArgs ==
  { [kind |-> "object", location |-> "Paris", unit |-> u] :
        u \in {"celsius", "fahrenheit", "undefined"} }
  \cup { [kind |-> "object", location |-> "undefined", unit |-> "undefined"],
         [kind |-> "null"], [kind |-> "undefined"] }
\* what the weather API does with the request
ApiOutcomes == {"ok", "notFound", "unauthorized", "network", "malformed"}
ToolInputs == [toolName : ToolNames, args : ToolArgs, api : ApiOutcomes]

Raised(e) == [raised |-> e]

\* getCurrentWeather: the data, or the error payload of the catch block
getCurrentWeather(location, unit, api) ==
  IF api = "ok"
  THEN [location |-> location, data |-> "weather",
        unit |-> IF unit = "undefined" THEN "celsius" ELSE unit, error |-> "undefined"]
  ELSE [location |-> location, data |-> "undefined", unit |-> "undefined",
        error |-> "Could not fetch weather data"]

\* getForecast
getForecast(location, api) ==
  IF api = "ok"
  THEN [location |-> location, data |-> "forecast", unit |-> "undefined",
        error |-> "undefined"]
  ELSE [location |-> location, data |-> "undefined", unit |-> "undefined",
        error |-> "Could not fetch forecast data"]

\* executeTool: args.location is read before the tool's try block, a
\* TypeError when args is null or undefined
executeTool(toolName, args, api) ==
  IF toolName \notin {"get_current_weather", "get_forecast"}
  THEN Returned([location |-> "undefined", data |-> "undefined", unit |-> "undefined",
                 error |-> "Unknown tool"])
  ELSE IF args.kind # "object" THEN Raised("TypeError")
  ELSE IF toolName = "get_current_weather"
  THEN Returned(getCurrentWeather(args.location, args.unit, api))
  ELSE Returned(getForecast(args.location, api))

InitTool ==
  /\ Request /\ RouterIdle /\ ModerationIdle /\ GateIdle /\ SessionIdle /\ CallIdle /\ FrontIdle
  /\ impl = "graph" /\ mode = "chat" /\ maxIterations = 0 /\ store = <<>>
  /\ toolIn \in ToolInputs
  /\ toolOutput = None

\* one call of executeTool
ExecuteTool ==
  /\ toolIn # None /\ toolOutput = None
  /\ toolOutput' = executeTool(toolIn.toolName, toolIn.args, toolIn.api)
  /\ UNCHANGED <<main, front, auxOutput, routerDecision, modIn, moderationResponse, req,
                 moderationContext, nextCalled, toolIn, session, pureCall>>

NextTool == ExecuteTool

SpecTool == InitTool /\ [][NextTool]_vars

\* ------------------------------------------------- session repository
SessionIds == {"s1", "s2"}
\* a session document of the collection, or none for the session id
Absent == [exists |-> FALSE, messages |-> <<>>]
Doc(msgs) == [exists |-> TRUE, messages |-> msgs]

\* the messages a caller can append: a user turn, an assistant answer, and
\* an assistant turn that carries tool calls and no content
RepoMessages == {UserMsg, AssistantFinal(<<"a">>), AssistantCalls(<<Call(1, "obj")>>)}
RepoBatches == { <<m>> : m \in RepoMessages }
                 \cup { <<m, n>> : m \in RepoMessages, n \in RepoMessages }

\* validation of a message on save: role is one of the enum, content is a
\* required string (null and the empty string are rejected)
ValidMessage(m) ==
  /\ m.role \in {"user", "assistant", "system", "tool"}
  /\ m.content # <<>>

\* getOrCreateSession: the stored document, or a new one saved with no
\* messages
getOrCreateSession(docs, sessionId) ==
  IF docs[sessionId].exists THEN docs[sessionId] ELSE Doc(<<>>)

\* appendMessages: push the messages on the document and save it; a failed
\* validation rejects the save and the collection keeps what it had
appendMessages(docs, sessionId, msgs) ==
  LET found == getOrCreateSession(docs, sessionId)
      pushed == found.messages \o msgs
  IN IF \A i \in DOMAIN pushed : ValidMessage(pushed[i])
     THEN [docs EXCEPT ![sessionId] = Doc(pushed)]
     ELSE [docs EXCEPT ![sessionId] = found]

\* messages.slice(-limit)
LastN(msgs, n) ==
  IF Len(msgs) <= n THEN msgs ELSE SubSeq(msgs, Len(msgs) - n + 1, Len(msgs))

\* getSessionHistory; limit 0 stands for no limit given
getSessionHistory(docs, sessionId, limit) ==
  IF ~docs[sessionId].exists THEN <<>>
  ELSE IF limit > 0 THEN LastN(docs[sessionId].messages, limit)
  ELSE docs[sessionId].messages

InitSession ==
  /\ Request /\ RouterIdle /\ ModerationIdle /\ GateIdle /\ ToolIdle /\ CallIdle /\ FrontIdle
  /\ impl = "graph" /\ mode = "chat" /\ maxIterations = 0 /\ store = <<>>
  /\ sessionDocs \in [SessionIds -> {Absent, Doc(<<>>), Doc(History(1))}]
  /\ expected = [id \in SessionIds |-> sessionDocs[id].messages]
  /\ loaded = None
  /\ appends = 0
  /\ writers = None

\* one call of appendMessages (appendMessage is the call with one message)
AppendMessages ==
  /\ sessionDocs # None /\ appends < MaxAppends
  /\ \E id \in SessionIds, msgs \in RepoBatches :
       /\ sessionDocs' = appendMessages(sessionDocs, id, msgs)
       /\ expected' = [expected EXCEPT ![id] = @ \o msgs]
  /\ appends' = appends + 1
  /\ loaded' = None
  /\ UNCHANGED <<main, front, auxOutput, routerDecision, modIn, moderationResponse, req,
                 moderationContext, nextCalled, toolIn, toolOutput, pureCall, writers>>

\* one call of getSessionHistory
GetSessionHistory ==
  /\ sessionDocs # None
  /\ \E id \in SessionIds, limit \in 0..1 :
       loaded' = [sessionId |-> id, limit |-> limit,
                  messages |-> getSessionHistory(sessionDocs, id, limit)]
  /\ UNCHANGED <<main, front, auxOutput, routerDecision, modIn, moderationResponse, req,
                 moderationContext, nextCalled, toolIn, toolOutput, pureCall,
                 sessionDocs, expected, appends, writers>>

NextSession == AppendMessages \/ GetSessionHistory

SpecSession == InitSession /\ [][NextSession]_vars

\* --------------------------------------- concurrent appendMessage calls
\* two requests call appendMessage for the session RacedId at the same time;
\* each call is the steps of appendMessages: the findOne of
\* getOrCreateSession, the insert of createSession when nothing was found,
\* and the push and save of the messages
Writers == {"w1", "w2"}
RacedId == "s1"
WriterMessages == {UserMsg, AssistantFinal(<<"a">>)}

InitRace ==
  /\ Request /\ RouterIdle /\ ModerationIdle /\ GateIdle /\ ToolIdle /\ CallIdle /\ FrontIdle
  /\ impl = "graph" /\ mode = "chat" /\ maxIterations = 0 /\ store = <<>>
  /\ sessionDocs \in [SessionIds -> {Absent, Doc(<<>>), Doc(History(1))}]
  /\ expected = [id \in SessionIds |-> sessionDocs[id].messages]
  /\ loaded = None
  /\ appends = 0
  /\ writers \in [Writers -> [pc : {"find"}, message : WriterMessages]]

Others == <<main, front, auxOutput, routerDecision, modIn, moderationResponse, req,
            moderationContext, nextCalled, toolIn, toolOutput, pureCall,
            expected, loaded, appends>>

\* Session.findOne({ sessionId })
W_Find(w) ==
  /\ writers[w].pc = "find"
  /\ writers' = [writers EXCEPT ![w].pc = IF sessionDocs[RacedId].exists
                                         THEN "push" ELSE "create"]
  /\ UNCHANGED <<sessionDocs, Others>>

\* createSession: the insert; sessionId is a unique index of the collection,
\* so the insert of a second document for the id is rejected and the call
\* of appendMessages fails
W_Create(w) ==
  /\ writers[w].pc = "create"
  /\ IF sessionDocs[RacedId].exists
     THEN /\ writers' = [writers EXCEPT ![w].pc = "failed"]
          /\ UNCHANGED sessionDocs
     ELSE /\ sessionDocs' = [sessionDocs EXCEPT ![RacedId] = Doc(<<>>)]
          /\ writers' = [writers EXCEPT ![w].pc = "push"]
  /\ UNCHANGED Others

\* session.messages.push(...messages) and session.save(): the pushed
\* messages are added to the stored array
W_Save(w) ==
  /\ writers[w].pc = "push"
  /\ sessionDocs' = [sessionDocs EXCEPT ![RacedId] =
                       Doc(@.messages \o <<writers[w].message>>)]
  /\ writers' = [writers EXCEPT ![w].pc = "done"]
  /\ UNCHANGED Others

NextRace == \E w \in Writers : W_Find(w) \/ W_Create(w) \/ W_Save(w)

SpecRace == InitRace /\ [][NextRace]_vars


\* ------------------------------------------------------------- tone
InitTone ==
  /\ Request /\ RouterIdle /\ ModerationIdle /\ GateIdle /\ ToolIdle /\ SessionIdle /\ FrontIdle
  /\ impl = "graph" /\ mode = "chat" /\ maxIterations = 0 /\ store = <<>>
  /\ callIn \in [fn : {"detectEmotionalTone"}, text : TextFeatures]
  /\ callOut = None

\* one call of detectEmotionalTone
DetectEmotionalTone ==
  /\ callIn # None /\ callIn.fn = "detectEmotionalTone" /\ callOut = None
  /\ callOut' = detectEmotionalTone(callIn.text)
  /\ UNCHANGED <<main, front, auxOutput, routerDecision, modIn, moderationResponse, req,
                 moderationContext, nextCalled, toolIn, toolOutput, session, callIn>>

NextTone == DetectEmotionalTone

SpecTone == InitTone /\ [][NextTone]_vars

\* ------------------------------------------------------- classifier
InitClassifier ==
  /\ Request /\ RouterIdle /\ ModerationIdle /\ GateIdle /\ ToolIdle /\ SessionIdle /\ FrontIdle
  /\ impl = "graph" /\ mode = "chat" /\ maxIterations = 0 /\ store = <<>>
  /\ callIn \in [fn : {"checkContent"}, response : ClassifierResponses]
  /\ callOut = None

\* one call of checkContent
CheckContent ==
  /\ callIn # None /\ callIn.fn = "checkContent" /\ callOut = None
  /\ callOut' = checkContent(callIn.response)
  /\ UNCHANGED <<main, front, auxOutput, routerDecision, modIn, moderationResponse, req,
                 moderationContext, nextCalled, toolIn, toolOutput, session, callIn>>

NextClassifier == CheckContent

SpecClassifier == InitClassifier /\ [][NextClassifier]_vars

\* ------------------------------------------------------- cancellation
\* the backend and tool calls made so far for the request
Calls ==
  [model |-> modelCalls["primary"] + modelCalls["fallback"],
   tool |-> Cardinality({ i \in DOMAIN order : order[i].op = "executed" })]

\* the consumer of a streaming request goes away before the done event;
\* chatStream keeps iterating the generator and writing to the response
Disconnect ==
  /\ mode = "stream" /\ connected /\ pc # "done"
  /\ connected' = FALSE
  /\ atDisconnect' = Calls
  /\ UNCHANGED <<cfg, pc, db, decision, messages, conv, toolCallsMade, pending, iter,
                 selectedModel, attempt, fallbackUsed, finalResponse, error, events,
                 result, emitter, ghost, fallbackFirstId, order, twin, pure>>

InitCancel == Init /\ mode = "stream"

NextCancel ==
  \/ S_Load \/ S_SaveUser \/ S_Route \/ S_Start \/ S_CallModel \/ S_Tool
  \/ S_Persist \/ S_PersistSession \/ S_Exhausted
  \/ G_Load \/ G_SaveUser \/ G_Route \/ G_ExecuteModel \/ G_ExecuteTools
  \/ G_Fallback \/ G_Save
  \/ Disconnect

SpecCancel == InitCancel /\ [][NextCancel]_vars

\* ============================================================ frontend
\* the chat store of the web client and the stream client it calls, fed by
\* the event records the backend writes.  The store sees the records in
\* their order and nothing of the backend's steps between them, so the
\* client's steps are taken on the records of a finished backend run
\* (Delivering); a connection that closes early leaves a prefix of them.
\* the variables of the backend parts that are not the orchestrator
services == <<auxOutput, routerDecision, modIn, moderationResponse, req,
              moderationContext, nextCalled, toolIn, toolOutput, session, pureCall>>
\* the variables of the orchestrator but its position
mainData == <<cfg, db, decision, messages, conv, toolCallsMade, pending, iter,
              selectedModel, attempt, fallbackUsed, finalResponse, error, events,
              result, emitter, ghost, fallbackFirstId, order, twin, connected,
              atDisconnect>>

\* RouterService.getModelDisplayName
getModelDisplayName(model) ==
  CASE model = "openai" -> "GPT-3.5 Turbo"
    [] model = "deepseek" -> "DeepSeek V3"
    [] OTHER -> model

\* generateSessionId: `session-${Date.now()}`
generateSessionId(now) == [prefix |-> "session-", stamp |-> now]

\* a message of the store
StoreMessage(id, role, content) ==
  [id |-> id, role |-> role, content |-> content, toolCalls |-> <<>>,
   modelDisplayName |-> "", fallbackUsed |-> FALSE]

\* state.messages.map(msg => msg.id === id ? { ...msg, ...fields } : msg)
MapMessage(msgs, id, fields) ==
  [i \in DOMAIN msgs |->
     IF msgs[i].id = id
     THEN [k \in DOMAIN msgs[i] |-> IF k \in DOMAIN fields THEN fields[k] ELSE msgs[i][k]]
     ELSE msgs[i]]

\* the data of a done event as the client parses it
DoneData(e) ==
  [response |-> e.text, toolCallsMade |-> e.tools,
   modelDisplayName |-> getModelDisplayName(e.model), fallbackUsed |-> e.flag]

\* the page is loaded: the store is created, nothing was sent
InitStore ==
  /\ Arriving /\ RouterIdle /\ ModerationIdle /\ GateIdle /\ ToolIdle /\ SessionIdle
  /\ CallIdle
  \* a first message of a session; the client names no budget
  /\ mode = "stream" /\ pc = "client" /\ store = <<>>
  /\ maxIterations = ClientBudget
  /\ clock = [now |-> 0, ids |-> 0]
  /\ chat = [messages |-> <<>>, isLoading |-> FALSE, error |-> "null",
             sessionId |-> generateSessionId(0)]
  /\ reply = None
  /\ fpc = "idle"

\* the synchronous part of a sendMessage call: the user message and the
\* placeholder of the reply are added, isLoading is set
Sent ==
  [chat EXCEPT !.messages = @ \o <<StoreMessage(clock.ids + 1, "user", <<"q">>),
                                   StoreMessage(clock.ids + 2, "assistant", <<>>)>>,
               !.isLoading = TRUE,
               !.error = "null"]

\* sendMessage up to the request of sendMessageStream, which the backend
\* starts to serve
F_SendMessage ==
  /\ fpc = "idle" /\ pc = "client"
  /\ chat' = Sent
  /\ reply' = [assistantId |-> clock.ids + 2, sessionId |-> chat.sessionId,
               streamedContent |-> <<>>, toolCalls |-> <<>>,
               modelDisplayName |-> "", fallbackUsed |-> FALSE,
               cursor |-> 0, done |-> None, left |-> FALSE]
  /\ clock' = [clock EXCEPT !.ids = @ + 2]
  /\ fpc' = "streaming"
  /\ pc' = "load"
  /\ UNCHANGED <<mainData, services>>

\* the response is being delivered to the client
Delivering == fpc = "streaming" /\ pc = "done"

\* the callbacks of sendMessage on one event record
OnChunk(e) ==
  LET streamedContent == reply.streamedContent \o e.text IN
  /\ reply' = [reply EXCEPT !.streamedContent = streamedContent, !.cursor = @ + 1]
  /\ chat' = [chat EXCEPT !.messages =
                MapMessage(@, reply.assistantId, [content |-> streamedContent])]

OnRouting(e) ==
  /\ reply' = [reply EXCEPT !.modelDisplayName = getModelDisplayName(e.model),
                            !.fallbackUsed = e.flag,
                            !.cursor = @ + 1]
  /\ chat' = chat

OnDone(e) ==
  LET data == DoneData(e)
      modelDisplayName == IF data.modelDisplayName # "" THEN data.modelDisplayName
                          ELSE reply.modelDisplayName
      fallbackUsedNow == data.fallbackUsed \/ reply.fallbackUsed
  IN
  /\ reply' = [reply EXCEPT !.toolCalls = data.toolCallsMade,
                            !.modelDisplayName = modelDisplayName,
                            !.fallbackUsed = fallbackUsedNow,
                            !.cursor = @ + 1,
                            !.done = data]
  /\ chat' = [chat EXCEPT
                !.messages = MapMessage(@, reply.assistantId,
                               [content |-> OrElse(reply.streamedContent, data.response),
                                toolCalls |-> data.toolCallsMade,
                                modelDisplayName |-> modelDisplayName,
                                fallbackUsed |-> fallbackUsedNow]),
                !.isLoading = FALSE]

OnError(text) ==
  chat' = [chat EXCEPT !.error = text, !.isLoading = FALSE]

\* sendMessageStream reads the next record of the response and dispatches it
F_Receive ==
  /\ Delivering /\ reply.cursor < Len(events)
  /\ LET e == events[reply.cursor + 1] IN
     CASE e.type = "content" -> OnChunk(e)
       [] e.type = "routing" -> OnRouting(e)
       [] e.type = "done" -> OnDone(e)
       [] e.type = "error" -> /\ OnError("error")
                              /\ reply' = [reply EXCEPT !.cursor = @ + 1]
       [] OTHER -> /\ reply' = [reply EXCEPT !.cursor = @ + 1]
                   /\ chat' = chat
  /\ UNCHANGED <<main, services, fpc, clock>>

\* every record the backend wrote was read and the response ends, with the
\* [DONE] record or without it: sendMessageStream returns
F_EndOfStream ==
  /\ Delivering /\ reply.cursor = Len(events)
  /\ fpc' = "returned"
  /\ UNCHANGED <<main, services, chat, reply, clock>>

\* the connection is closed before every record has arrived: the reader
\* reports the end of the response
F_ConnectionClosed ==
  /\ Delivering /\ reply.cursor < Len(events)
  /\ fpc' = "returned"
  /\ UNCHANGED <<main, services, chat, reply, clock>>

\* fetch or the reader fails: the catch block of sendMessageStream calls
\* onError
F_TransportFailure ==
  /\ Delivering
  /\ OnError("Failed to send message")
  /\ fpc' = "returned"
  /\ UNCHANGED <<main, services, reply, clock>>

\* newSession, some milliseconds (or none) after the clock was last read
F_NewSession ==
  /\ Delivering \/ fpc = "returned"
  /\ \E now \in clock.now..MaxNow :
       /\ clock' = [clock EXCEPT !.now = now]
       /\ chat' = [chat EXCEPT !.messages = <<>>, !.error = "null",
                               !.sessionId = generateSessionId(now)]
  \* reply.left notes that the session of the reply has been left
  /\ reply' = [reply EXCEPT !.left = (@ \/ fpc = "streaming")]
  /\ UNCHANGED <<main, services, fpc>>

\* the synchronous part of a sendMessage call in a new session, whose reply
\* is not followed
F_SendAgain ==
  /\ fpc \in {"streaming", "returned"} /\ clock.ids < 2 * MaxSends
  /\ chat.messages = <<>>
  /\ chat' = Sent
  /\ clock' = [clock EXCEPT !.ids = @ + 2]
  /\ UNCHANGED <<main, services, reply, fpc>>

NextStore ==
  \/ F_SendMessage \/ F_Receive \/ F_EndOfStream \/ F_ConnectionClosed
  \/ F_TransportFailure \/ F_NewSession \/ F_SendAgain
  \/ S_Load \/ S_SaveUser \/ S_Route \/ S_Start \/ S_CallModel \/ S_Tool
  \/ S_Persist \/ S_PersistSession \/ S_Exhausted
  \/ G_Load \/ G_SaveUser \/ G_Route \/ G_ExecuteModel \/ G_ExecuteTools
  \/ G_Fallback \/ G_Save

SpecStore == InitStore /\ [][NextStore]_vars

\* ============================================================ properties
Attempts == {"primary", "fallback"}
TerminalTypes == {"done", "error"}
Finished == pc = "done"
StreamFinished == mode = "stream" /\ pc = "done"
ChatFinished == mode = "chat" /\ pc = "done"
LastEvent == events[Len(events)]
EndsWithDone == events # <<>> /\ LastEvent.type = "done"
EventsOfType(types) == { i \in DOMAIN events : events[i].type \in types }

RECURSIVE ContentConcat(_)
ContentConcat(evs) ==
  IF evs = <<>> THEN <<>>
  ELSE (IF Head(evs).type = "content" THEN Head(evs).text ELSE <<>>)
       \o ContentConcat(Tail(evs))

\* the conversation the agent loop is running on
Running == IF impl = "service" THEN conv ELSE messages
ToolIdx(msgs) == { i \in DOMAIN msgs : msgs[i].role = "tool" }
\* the issued calls of msgs, as pairs <<position of the message, index>>
IssuedCalls(msgs) ==
  { <<i, j>> \in (DOMAIN msgs) \X (1..(MaxCalls + 1)) :
      msgs[i].role = "assistant" /\ j <= Len(msgs[i].toolCalls) }
MidBatch == pc \in {"tools", "execute_tools"}

\* C1: an agent-loop run for one model makes at most maxIterations backend
\* calls, and a run that ends on the exhausted budget made exactly
\* maxIterations of them.
C1_AtMostMaxIterations ==
  /\ \A a \in Attempts : modelCalls[a] <= maxIterations
  /\ loopEnd = "exhausted" => modelCalls[attempt] = maxIterations

\* C2: when the iteration budget is exhausted (the backend asked for tools
\* on each of the maxIterations turns), processChat returns (no exception)
\* the fixed "Max iterations reached" answer together with the tool calls
\* that were made.
C2_ExhaustedAnswer ==
  (ChatFinished /\ loopEnd = "exhausted" /\ modelCalls[attempt] = maxIterations)
    => /\ result.kind = "json"
       /\ result.response = MaxIterText
       /\ result.toolCallsMade = toolCallsMade

\* C3: when a backend call of the primary model raised and a fallback model
\* is defined, the result of processChat has fallbackUsed = true and
\* modelUsed = the fallback model, whether the fallback backend then answers,
\* exhausts its budget or raises.
C3_FallbackReported ==
  (ChatFinished /\ raised["primary"] /\ decision.fallbackModel # "none"
     /\ loopEnd \in {"final", "exhausted", "raised"})
    => /\ result.kind = "json"
       /\ result.fallbackUsed
       /\ result.modelUsed = decision.fallbackModel

\* C4: when the primary and the fallback model both fail, the caller gets
\* the generic apology as the response: no exception, no HTTP error and no
\* error event, from processChat and from processChatStream.
C4_ApologyOnDoubleFailure ==
  (Finished /\ raised["primary"] /\ raised["fallback"])
    => IF mode = "chat"
       THEN result.kind = "json" /\ result.response = ApologyText
       ELSE /\ EventsOfType({"error"}) = {}
            /\ EndsWithDone
            /\ LastEvent.text = ApologyText

\* C5: the fallback attempt starts from the message list the primary started
\* from, and no tool-call log entry of the failed primary attempt is in the
\* result's toolCallsMade.
C5_FallbackStartsFromOriginal ==
  /\ (modelCalls["primary"] >= 1 /\ modelCalls["fallback"] >= 1)
       => firstMsgs["fallback"] = firstMsgs["primary"]
  /\ (ChatFinished /\ result.kind = "json" /\ fallbackFirstId > 0)
       => \A j \in DOMAIN result.toolCallsMade :
            result.toolCallsMade[j].stamp >= fallbackFirstId

\* C6: in the running conversation of an agent-loop run (outside the
\* execution of a batch) there are as many tool messages as issued tool
\* calls, every tool message answers exactly one call of a preceding
\* assistant message, and every issued call is answered exactly once.
C6_ToolMessagesAnswerCalls ==
  ~MidBatch =>
    LET msgs == Running IN
    /\ Cardinality(ToolIdx(msgs)) = Cardinality(IssuedCalls(msgs))
    /\ \A t \in ToolIdx(msgs) :
         Cardinality({ c \in IssuedCalls(msgs) :
                         /\ c[1] < t
                         /\ msgs[c[1]].toolCalls[c[2]].id = msgs[t].toolCallId }) = 1
    /\ \A c \in IssuedCalls(msgs) :
         Cardinality({ t \in ToolIdx(msgs) :
                         msgs[t].toolCallId = msgs[c[1]].toolCalls[c[2]].id }) = 1

\* a batch of k calls at position i of msgs is followed directly by exactly
\* k tool messages, in the order of the calls
BatchAnswered(msgs, i) ==
  LET k == Len(msgs[i].toolCalls) IN
  /\ i + k <= Len(msgs)
  /\ \A j \in 1..k :
       /\ msgs[i + j].role = "tool"
       /\ msgs[i + j].toolCallId = msgs[i].toolCalls[j].id
  /\ (i + k + 1 <= Len(msgs)) => msgs[i + k + 1].role # "tool"
AllBatchesAnswered(msgs) ==
  \A i \in DOMAIN msgs :
    (msgs[i].role = "assistant" /\ msgs[i].toolCalls # <<>>) => BatchAnswered(msgs, i)

\* C7: a model response with k >= 1 tool invocations becomes one assistant
\* message carrying the k calls, followed directly by exactly k tool
\* messages in call order, and no backend call sees the batch before all k
\* tool messages are appended.
C7_OneAssistantTurnPerBatch ==
  /\ AllBatchesAnswered(lastCall)
  /\ ~MidBatch => AllBatchesAnswered(Running)

\* C8: in a streaming request a routing event precedes every tool and
\* content event, and the sequence has exactly one terminal event (done or
\* error), which is its last event.
C8_EventOrder ==
  mode = "stream" =>
    /\ \A i \in EventsOfType({"tool", "content"}) :
         \E j \in EventsOfType({"routing"}) : j < i
    /\ ~Finished => EventsOfType(TerminalTypes) = {}
    /\ Finished => EventsOfType(TerminalTypes) = {Len(events)} /\ events # <<>>

\* a finished stream with tool and content events, closed by done after a
\* fallback
C8_Witness ==
  /\ StreamFinished /\ EndsWithDone
  /\ EventsOfType({"tool"}) # {} /\ EventsOfType({"content"}) # {}
  /\ raised["primary"]

\* C9: in a streaming run that ends with the model's answer or on the
\* exhausted budget, the payloads of the content events, concatenated in
\* emission order, equal the response of the terminal done event.
C9_ContentConcatIsResponse ==
  (StreamFinished /\ EndsWithDone /\ loopEnd \in {"final", "exhausted"})
    => ContentConcat(events) = LastEvent.text

\* C10: when the primary backend failed and the fallback answered, a routing
\* event naming the fallback model and flagged as fallback precedes the
\* fallback attempt's events, and the last routing event names modelUsed of
\* the done event.
C10_FallbackRoutingEvent ==
  (StreamFinished /\ EndsWithDone /\ raised["primary"]
     /\ decision.fallbackModel # "none" /\ loopEnd \in {"final", "exhausted"})
    => /\ \E i \in EventsOfType({"routing"}) :
            events[i].flag /\ events[i].model = decision.fallbackModel
       /\ \E i \in EventsOfType({"routing"}) :
            /\ \A j \in EventsOfType({"routing"}) : j <= i
            /\ events[i].model = LastEvent.model

\* C11: in a streaming request every tool invocation whose execution has
\* completed was announced by exactly one tool event, emitted after the
\* invocation was decided and before that execution completed.
C11_ToolEventBeforeExecution ==
  mode = "stream" =>
    \A i \in DOMAIN order :
      order[i].op = "executed" =>
        /\ Cardinality({ j \in DOMAIN order :
                          order[j] = Op("event", order[i].id) }) = 1
        /\ \E d \in 1..(i - 1) : \E j \in 1..(i - 1) :
             /\ d < j
             /\ order[d] = Op("decided", order[i].id)
             /\ order[j] = Op("event", order[i].id)

\* C12: for the same message, history, routing decision and backend and tool
\* behaviours, the data of the done event equals the OrchestratorResponse
\* processChat returns: response, toolCallsMade, modelUsed and fallbackUsed.
C12_DoneEqualsResponse ==
  (StreamFinished /\ EndsWithDone)
    => /\ twin.kind = "json"
       /\ LastEvent.text = twin.response
       /\ LastEvent.tools = twin.toolCallsMade
       /\ LastEvent.model = twin.modelUsed
       /\ LastEvent.flag = twin.fallbackUsed

\* C13: once the consumer of a streaming request has disconnected before the
\* done event, no further model-backend call and no further tool call is
\* started for that request.
C13_NoWorkAfterDisconnect ==
  ~connected => Calls = atDisconnect

\* the hard-coded default decision of routeRequest
DefaultDecision ==
  [model |-> "openai", confidence |-> "0.5",
   reasoning |-> "Routing failed, using default model", fallbackModel |-> "deepseek"]
MissingField(a) ==
  a.kind = "json" /\ "missing" \in {a.model, a.confidence, a.reasoning}

\* C14: when the auxiliary call raises, answers something unparseable, or
\* answers JSON that lacks model, confidence or reasoning, routeRequest
\* returns the hard-coded default decision.
C14_DefaultOnBadRouterOutput ==
  (routerDecision # None /\ (auxOutput.kind # "json" \/ MissingField(auxOutput)))
    => routerDecision = DefaultDecision

\* C15: every decision routeRequest returns has fallbackModel different from
\* model, and the fallback of each of the two models is the other one.
C15_FallbackDiffers ==
  /\ routerDecision # None => routerDecision.fallbackModel # routerDecision.model
  /\ getFallbackModel("openai") = "deepseek"
  /\ getFallbackModel("deepseek") = "openai"

\* C16: for a message the scope check classifies as out of scope the gate
\* returns a blocking canned response, whatever the tone, the
\* appropriateness result and the weather vocabulary; a blocking response is
\* returned whenever the content is inappropriate or out of scope.
C16_OutOfScopeBlocks ==
  (moderationResponse # None
     /\ (~modIn.scopeResult.isWithinScope \/ ~modIn.moderationResult.isAppropriate))
    => moderationResponse.value # <<>>

\* the middleware has handled the request
GateDone == req # None /\ pc # "moderate"
\* the middleware replied the canned response text and did not hand on
BlockedWith(text, reason) ==
  /\ pc = "done" /\ ~nextCalled
  /\ IF mode = "stream"
     THEN events = <<ModeratedDone(text, reason), Sentinel>> /\ result = NoResult
     ELSE result = ModeratedJson(text, reason) /\ events = <<>>
\* the canned response the gate computes for the request r, <<>> for none
GateResponse(r) ==
  IF r.body # "text" THEN <<>>
  ELSE getModerationResponse(checkContent(ClassifierAnswer(r.classifier)), isWithinScope(r.scopePattern),
                             detectEmotionalTone(MarkedText(r.markers)), "undefined")

\* C17: through the gate, a message the classifier finds inappropriate is
\* blocked with the canned response when it has no weather vocabulary, and
\* is not blocked and reaches the orchestrator when it has weather vocabulary.
C17_WeatherVocabularyTolerated ==
  (GateDone /\ req.body = "text" /\ req.classifier = "serious") =>
     IF req.weatherWords
     THEN nextCalled
     ELSE BlockedWith(InappropriateText, "inappropriate_content")

\* C18: when the classifier call fails the message is treated as appropriate
\* and the failure is recorded in the result; the gate then answers no error:
\* the request proceeds, or is blocked by the scope check alone; an exception
\* inside the middleware lets the request proceed as well.
C18_FailOpen ==
  /\ (GateDone /\ req.body = "text" /\ req.classifier = "fails") =>
       /\ checkContent(ClassifierAnswer(req.classifier)).isAppropriate
       /\ checkContent(ClassifierAnswer(req.classifier)).error = "message"
       /\ IF req.scopePattern
          THEN BlockedWith(SuggestionText, "out_of_scope")
          ELSE /\ nextCalled
               /\ moderationContext # None
               /\ moderationContext.moderationResult.isAppropriate
               /\ moderationContext.moderationResult.error = "message"
  /\ (GateDone /\ req.body = "nonText") => nextCalled

\* the classifier call failed, the request went on and a model answered it
C18_Witness ==
  /\ GateDone /\ req.body = "text" /\ req.classifier = "fails" /\ nextCalled
  /\ pc = "done" /\ mode = "chat"
  /\ result.kind = "json" /\ result.modelUsed \in Providers

\* C19: when the gate returns a blocking response the request completes with
\* that canned response and nothing runs behind the gate: no router call, no
\* backend call, no tool call, no session write; on the streaming endpoint the
\* reply is one done event followed by the end-of-stream sentinel.
C19_BlockShortCircuits ==
  (GateDone /\ GateResponse(req) # <<>>) =>
     /\ BlockedWith(GateResponse(req), ModeratedReason(checkContent(ClassifierAnswer(req.classifier))))
     /\ decision = [model |-> "none", fallbackModel |-> "none"]
     /\ selectedModel = "none"
     /\ modelCalls = [a \in Attempts |-> 0]
     /\ order = <<>> /\ toolCallsMade = <<>>
     /\ store = <<>> /\ analytics = 0

\* a blocked streaming request: the done event and the sentinel
C19_Witness ==
  /\ GateDone /\ GateResponse(req) # <<>> /\ mode = "stream"
  /\ Len(events) = 2 /\ events[1].type = "done" /\ events[2] = Sentinel

\* the tool could not produce its data: the tool is unknown, the argument
\* mapping is absent, or the weather API did not answer with data
ToolFailed(t) ==
  \/ t.toolName = "unknown_tool"
  \/ t.args.kind # "object"
  \/ t.api # "ok"

\* C20: executeTool returns a value and never raises, for every tool name,
\* every argument value (a null or missing mapping included) and every outcome
\* of the weather API; an internal failure is returned as a result with an
\* error field.
C20_ExecuteToolNeverRaises ==
  toolOutput # None =>
     /\ "value" \in DOMAIN toolOutput
     /\ ToolFailed(toolIn) => toolOutput.value.error # "undefined"

\* C21: when the analytics write or the session write fails after the model
\* produced a final answer, no fallback attempt is started because of it, and
\* the request returns that answer with the modelUsed and fallbackUsed of a
\* successful write.
C21_WriteFailureKeepsAnswer ==
  loopEnd = "persistRaised" =>
     /\ pc = "done"
     /\ attempt = "fallback" <=> raised["primary"]
     /\ mode = "chat" =>
          /\ result.kind = "json"
          /\ result.response = OrElse(finalResponse, NoResponseText)
          /\ result.fallbackUsed = raised["primary"]
          /\ result.modelUsed = IF raised["primary"] THEN decision.fallbackModel
                                ELSE decision.model

\* C22: getSessionHistory without a limit returns, for every session id, the
\* messages already stored followed by exactly the messages appended since,
\* in the order appended.
C22_AppendLoadRoundTrip ==
  (loaded # None /\ loaded.limit = 0) =>
     loaded.messages = expected[loaded.sessionId]

\* chatStream's catch block ran: the generator raised, the error record was
\* written and the response closed
CaughtByController ==
  mode = "stream" /\ pc = "done" /\ events # <<>> /\ LastEvent.type = "error"
\* the [DONE] records chatStream wrote: one after the loop over the
\* generator, none in the catch block
SentinelsWritten == IF StreamFinished /\ ~CaughtByController THEN 1 ELSE 0

\* C24: every closed streaming response, one whose pipeline raised included,
\* holds its event records followed by exactly one [DONE] sentinel.
C24_SentinelClosesStream ==
  StreamFinished => SentinelsWritten = 1

\* an anger indicator detectEmotionalTone reports fires for the text
ReportedAnger(text) ==
  \/ text.caps \/ text.exclamations >= ExclamationThreshold
  \/ text.angryWords \/ text.blameLanguage

\* C25: detectEmotionalTone answers distressed for every text with a distress
\* marker for which none of the anger indicators it reports fires, and the
\* indicators list of every angry answer is non-empty.
C25_DistressedUnlessAnger ==
  (callOut # None /\ callIn.fn = "detectEmotionalTone") =>
     /\ (callIn.text.distressWords /\ ~ReportedAnger(callIn.text)) =>
          callOut.tone = "distressed"
     /\ callOut.tone = "angry" => callOut.indicators # <<>>

NumeralValue ==
  [c \in {"0", "0.3", "0.5", "0.9", "-1", "1.5"} |->
     CASE c = "0" -> 0 [] c = "0.3" -> 30 [] c = "0.5" -> 50
       [] c = "0.9" -> 90 [] c = "-1" -> -100 [] c = "1.5" -> 150]
InUnitInterval(c) ==
  c \in DOMAIN NumeralValue /\ 0 <= NumeralValue[c] /\ NumeralValue[c] <= 100

\* C27: the confidence of every decision routeRequest returns is a number in
\* [0,1], whatever the auxiliary model put in the confidence field.
C27_ConfidenceInUnitInterval ==
  routerDecision # None => InUnitInterval(routerDecision.confidence)

\* the ids of the tool calls the model responses carried, in issue order
IssuedIds == SelectSeq([i \in DOMAIN order |-> IF order[i].op = "decided"
                                               THEN order[i].id ELSE 0],
                       LAMBDA x : x # 0)
LoggedIds(tools) == [i \in DOMAIN tools |-> tools[i].stamp]

\* C28: in a run in which no backend call failed and whose agent loop ended
\* with an answer or on the budget, the result names the routed model, has
\* fallbackUsed = false, and its toolCallsMade lists exactly the tool calls
\* the model issued, in issue order.
C28_NoFailureResult ==
  (ChatFinished /\ ~raised["primary"] /\ ~raised["fallback"]
     /\ loopEnd \in {"final", "exhausted"}) =>
     /\ result.kind = "json"
     /\ result.modelUsed = decision.model
     /\ result.fallbackUsed = FALSE
     /\ LoggedIds(result.toolCallsMade) = IssuedIds

RoutingEmitted == \E i \in DOMAIN events : events[i].type = "routing"

\* C29: in a streaming request the first routing event is emitted after the
\* router's decision is available and before the first backend call of the
\* request begins: once a backend has been called, the routing event is on
\* the stream and the decision it reports has been made.
C29_RoutingBeforeFirstCall ==
  (mode = "stream" /\ modelCalls["primary"] + modelCalls["fallback"] > 0) =>
     /\ RoutingEmitted
     /\ decision.model # "none"

\* the tool calls the fallback model requested, and those among them that
\* were executed
FallbackRequested == { order[i].id : i \in { j \in DOMAIN order :
                         order[j].op = "decided" /\ order[j].id >= fallbackFirstId } }
ExecutedIds == { order[i].id : i \in { j \in DOMAIN order : order[j].op = "executed" } }

\* C30: the fallback attempt is a full agent-loop run: when it ends with a
\* final answer or on its iteration budget, every tool call the fallback
\* model requested has been executed, and a fallback model that requested
\* tools and ended with an answer was called again after them.
C30_FallbackRunsAgentLoop ==
  (Finished /\ attempt = "fallback" /\ loopEnd \in {"final", "exhausted"}) =>
     /\ FallbackRequested \subseteq ExecutedIds
     /\ (FallbackRequested # {} /\ loopEnd = "final") => modelCalls["fallback"] >= 2

\* the backend calls one agent-loop attempt can make: its iteration budget,
\* and the one call the graph makes before it first tests the budget
CallBudget == IF maxIterations > 0 THEN maxIterations ELSE 1

C32_AssistantStoredLast ==
  (Finished /\ loopEnd \in {"final", "exhausted", "raised"}) =>
     /\ store # <<>>
     /\ store[Len(store)].role = "assistant"

\* C33: in the graph's streaming path (the stream loops over the states and
\* over the updates of the graph), for a run that ends with an answer or on
\* its budget, the number of tool events emitted equals the length of
\* toolCallsMade in the done event, and both equal the number of tool calls
\* executed across all iterations.
C33_ToolEventsMatchDone ==
  (StreamFinished /\ impl = "graph" /\ streamMode \in {"values", "updates"}
     /\ loopEnd \in {"final", "exhausted"} /\ EndsWithDone) =>
     /\ Cardinality(EventsOfType({"tool"})) = Len(LastEvent.tools)
     /\ Len(LastEvent.tools) = Cardinality(ExecutedIds)

\* the message of the store that holds the reply in flight, when it is there
ReplyShown == { i \in DOMAIN chat.messages : chat.messages[i].id = reply.assistantId }

\* C34: in the chat store, after the done event of a streaming reply has
\* been handled, the content of the assistant message shown for that reply
\* equals the response field of the done event, whatever content events the
\* backend emitted before it.
C34_ShownContentIsResponse ==
  (fpc \in {"streaming", "returned"} /\ reply.done # None) =>
     \A i \in ReplyShown : chat.messages[i].content = reply.done.response

\* C38: every sendMessage sets isLoading back to false, however the stream
\* ends (a done event, an error event, a transport failure, the end of the
\* response without a done or an error event): once the call has returned
\* and no later call is under way, isLoading is false.
C38_LoadingEnds ==
  (fpc = "returned" /\ clock.ids = 2) => ~chat.isLoading

\* C35: the model of every decision routeRequest returns is one of the
\* available models (openai or deepseek), whatever the auxiliary model
\* answers, so the model factory knows the provider it is handed.
C35_RoutedModelIsAvailable ==
  routerDecision # None =>
     /\ routerDecision.model \in Providers
     /\ FactoryCreates(routerDecision.model)

\* both concurrent appendMessage calls have ended
RaceOver == writers # None /\ \A w \in Writers : writers[w].pc \in {"done", "failed"}
\* the messages stored for the session beyond those it held at the start
Added ==
  SubSeq(sessionDocs[RacedId].messages, Len(expected[RacedId]) + 1,
         Len(sessionDocs[RacedId].messages))

\* C36: when two requests call appendMessage concurrently for the same
\* session id (stored or not yet stored), both calls succeed and the stored
\* session then holds what it held plus both messages, each exactly once,
\* in one session document.
C36_ConcurrentAppendsKept ==
  RaceOver =>
     /\ \A w \in Writers : writers[w].pc = "done"
     /\ sessionDocs[RacedId].exists
     /\ SubSeq(sessionDocs[RacedId].messages, 1, Len(expected[RacedId]))
          = expected[RacedId]
     /\ \/ Added = <<writers["w1"].message, writers["w2"].message>>
        \/ Added = <<writers["w2"].message, writers["w1"].message>>

\* C37: the orchestrators append to the session store only the user message
\* and the final assistant answer: every stored message is a user or an
\* assistant message with content and without tool calls, so no tool message
\* and no assistant tool-call message is stored and a loaded history holds no
\* tool call without its result.
C37_OnlyTurnsStored ==
  \A i \in DOMAIN store :
     /\ store[i].role \in {"user", "assistant"}
     /\ store[i].content # <<>>
     /\ store[i].toolCalls = <<>>
     /\ store[i].toolCallId = 0

\* a request that executed a tool and then stored its final answer
C37_Witness ==
  /\ Finished /\ loopEnd = "final" /\ ExecutedIds # {}
  /\ store # <<>> /\ store[Len(store)].role = "assistant"
  /\ Len(store) >= 2 /\ store[Len(store) - 1] = UserMsg

\* newSession was called while the reply was streaming
LeftWhileStreaming == fpc \in {"streaming", "returned"} /\ reply.left

\* C39: if newSession is called while a reply is still streaming, no
\* content, tool call or model attribution of that reply appears in the
\* messages of the new session, whatever records of the old stream arrive
\* afterwards, and the new session id differs from the one the request in
\* flight was sent with.
C39_NewSessionIsClean ==
  LeftWhileStreaming =>
     /\ \A i \in DOMAIN chat.messages :
          chat.messages[i].role = "assistant" =>
             /\ chat.messages[i].id # reply.assistantId
             /\ chat.messages[i].content = <<>>
             /\ chat.messages[i].toolCalls = <<>>
             /\ chat.messages[i].modelDisplayName = ""
     /\ chat.sessionId # reply.sessionId

====
